---- MODULE Spec2Model ----
(***************************************************************************)
(* A model of qrenderdoc's EventBrowser (Windows/EventBrowser.cpp): the    *)
(* event tree built from a capture's draw-call list, event selection,      *)
(* find, bookmarks and the asynchronous draw-timing fetch; and of its      *)
(* D3D12PipelineStateViewer (Windows/PipelineState/): the tables, labels   *)
(* and flowchart that setState and clearState fill from the pipeline       *)
(* state of the current event.                                             *)
(*                                                                         *)
(* Tree items are held in a sequence; an item pointer is its index, 0 is   *)
(* NULL, and item 1 is the frame root (topLevelItem(0)).  QStrings that    *)
(* are searched are sequences of characters, the others are strings.       *)
(* Item expansion, scrolling, fonts and marker colours are view state that *)
(* no handler reads back and are not part of the model.                    *)
(***************************************************************************)
EXTENDS Integers, Sequences, FiniteSets, TLC

VARIABLES
  logLoaded,          \* m_Ctx.LogLoaded()
  draws,              \* m_Ctx.CurDrawcalls()
  curEvent,           \* m_Ctx.CurEvent()
  events,             \* ui->events: the items of the tree widget
  currentItem,        \* ui->events->currentItem()
  selectedItem,       \* ui->events->selectedItem()
  enabled,            \* find/gotoEID/timeDraws/bookmark/export/step buttons
  m_Bookmarks,        \* QList<uint32_t>
  m_BookmarkButtons,  \* QList<QToolButton *>: [eid, checked]
  bookmarkStrip,      \* ui->bookmarkStrip->isVisible()
  jumpStrip,          \* ui->jumpStrip->isVisible()
  findStrip,          \* ui->findStrip->isVisible()
  findText,           \* ui->findEvent->text()
  findStyle,          \* ui->findEvent->styleSheet(): "" or "red"
  findTimer,          \* m_FindHighlight->isActive()
  m_Times,            \* rdctype::array<CounterResult>: [eventID, value]
  m_TimeUnit,         \* the unit the duration column is shown in
  EventBrowser_TimeUnit, \* m_Ctx.Config().EventBrowser_TimeUnit
  replayQueue,        \* invocations queued by m_Ctx.Replay().AsyncInvoke
  replayPc,           \* the replay thread inside the lambda: "idle", "assign"
  fetched,            \* the array FetchCounters returned to the replay thread
  guiQueue,           \* calls queued by GUIInvoke::call for the UI thread
  dispatched,         \* number of fetches dispatched since construction
  stored,             \* number of fetches whose results are stored in m_Times
  showDisabled,       \* ui->showDisabled->isChecked() of the pipeline viewer
  showEmpty,          \* ui->showEmpty->isChecked() of the pipeline viewer
  pipeState,          \* m_Ctx.CurD3D12PipelineState()
  curDraw,            \* m_Ctx.CurDrawcall()
  pipeUi,             \* the pipeline viewer's tables, labels and flowchart
  m_VBNodes,          \* QList<RDTreeWidgetItem *> of the vertex buffer rows
  crashed,            \* the process died on a NULL item or a torn array
  lastCall            \* the event browser's handler that ran last, its argument
                      \* and result

treeVars == <<logLoaded, draws, curEvent, events, currentItem, selectedItem, enabled>>
bookmarkVars == <<m_Bookmarks, m_BookmarkButtons, bookmarkStrip>>
findVars == <<jumpStrip, findStrip, findText, findStyle, findTimer>>
timeVars == <<m_Times, m_TimeUnit, EventBrowser_TimeUnit, replayQueue, replayPc,
              fetched, guiQueue, dispatched, stored>>
pipeVars == <<showDisabled, showEmpty, pipeState, curDraw, pipeUi, m_VBNodes>>
vars == <<treeVars, bookmarkVars, findVars, timeVars, pipeVars, crashed, lastCall>>

-----------------------------------------------------------------------------
(* Bounds of the model *)

\* draw calls in a capture of the tree-building specification
MaxDraws == 3
\* draw calls in a capture of the specifications that browse the tree
NavDraws == 2
\* nesting depth of marker regions
MaxDepth == 2

-----------------------------------------------------------------------------
(* QString *)

\* case folding of Qt::CaseInsensitive, for the letters of the model
ToLower(c) ==
  CASE c = "A" -> "a" [] c = "D" -> "d" [] c = "F" -> "f" [] c = "M" -> "m"
    [] c = "P" -> "p" [] c = "R" -> "r" [] c = "S" -> "s" [] c = "T" -> "t"
    [] c = "X" -> "x" [] OTHER -> c

\* QString::contains(filter, Qt::CaseInsensitive)
Contains(name, filter) ==
  \E i \in 0..(Len(name) - Len(filter)) :
     \A j \in 1..Len(filter) : ToLower(name[i + j]) = ToLower(filter[j])

NameFrame      == <<"F","r","a","m","e"," ","#","1">>
NameFrameStart == <<"F","r","a","m","e"," ","S","t","a","r","t">>
NameDraw       == <<"D","r","a","w">>
NameMark       == <<"M","a","r","k">>
NamePass       == <<"P","a","s","s">>

-----------------------------------------------------------------------------
(* The draw-call lists a capture can hold: DrawcallDescription trees whose   *)
(* event IDs increase in pre-order, starting above 0 (event 0 is the frame   *)
(* start).                                                                    *)

DrawKinds ==
  { [name |-> NameDraw, flags |-> {"Drawcall"}],
    [name |-> NameMark, flags |-> {"SetMarker"}],
    [name |-> NamePass, flags |-> {"PushMarker"}] }

\* pre-order depth sequences of forests with n nodes
DepthSeqs(n, maxDepth) ==
  { s \in [1..n -> 0..maxDepth] :
      /\ n > 0 => s[1] = 0
      /\ \A i \in 1..(n - 1) : s[i + 1] <= s[i] + 1 }

RECURSIVE SumTo(_, _)
SumTo(g, i) == IF i = 0 THEN 0 ELSE g[i] + SumTo(g, i - 1)

\* the first position after lo, up to hi, at depth d or above; hi + 1 if none
NextAt(f, lo, hi, d) ==
  LET c == { j \in (lo + 1)..hi : f[j].depth <= d }
  IN IF c = {} THEN hi + 1 ELSE CHOOSE j \in c : \A k \in c : j <= k

RECURSIVE Nest(_, _, _, _)
Nest(f, lo, hi, d) ==
  IF lo > hi THEN <<>>
  ELSE LET nxt == NextAt(f, lo, hi, d)
       IN <<[eventID  |-> f[lo].eid,
             name     |-> f[lo].kind.name,
             flags    |-> f[lo].kind.flags,
             children |-> Nest(f, lo + 1, nxt - 1, d + 1)]>>
          \o Nest(f, nxt, hi, d)

DrawListsOfSize(n, maxDepth, kinds, gaps) ==
  { Nest([i \in 1..n |-> [depth |-> ds[i], kind |-> ks[i], eid |-> SumTo(gs, i)]],
         1, n, 0) :
      ds \in DepthSeqs(n, maxDepth), ks \in [1..n -> kinds], gs \in [1..n -> gaps] }

DrawLists(maxN, maxDepth, kinds, gaps) ==
  UNION { DrawListsOfSize(n, maxDepth, kinds, gaps) : n \in 0..maxN }

\* consecutive draw calls are one event apart, or two when an API call that
\* is no draw call lies between them
EventGaps == {1, 2}

\* the captures of the tree-building specification
Captures == DrawLists(MaxDraws, MaxDepth, DrawKinds, EventGaps)

\* the captures of the specifications that browse the tree
NavCaptures == DrawLists(NavDraws, MaxDepth, DrawKinds, EventGaps)

\* the captures of the specifications that find events by name and bookmark
\* them, where the distance between event IDs plays no part
DenseCaptures == DrawLists(NavDraws, MaxDepth, DrawKinds, {1})

RECURSIVE CountDraws(_)
CountDraws(ds) ==
  IF ds = <<>> THEN 0
  ELSE 1 + CountDraws(Head(ds).children) + CountDraws(Tail(ds))

RECURSIVE PreOrder(_)
\* the draw calls of a list in depth-first pre-order, without their children
PreOrder(ds) ==
  IF ds = <<>> THEN <<>>
  ELSE <<[eventID |-> Head(ds).eventID, name |-> Head(ds).name,
          flags |-> Head(ds).flags]>>
       \o PreOrder(Head(ds).children) \o PreOrder(Tail(ds))

-----------------------------------------------------------------------------
(* EventItemTag and RDTreeWidgetItem *)

COL_NAME == 0
COL_EID == 1
COL_DURATION == 2

\* EventItemTag(eventID, lastEventID); EventItemTag() is EventItemTag2(0, 0)
EventItemTag2(eventID, lastEventID) ==
  [EID |-> eventID, lastEID |-> lastEventID, duration |-> -1,
   current |-> FALSE, find |-> FALSE, bookmark |-> FALSE]

EventItemTag1(eventID) == EventItemTag2(eventID, eventID)

\* RefreshIcon: the icon of an item is chosen from its tag
IconOf(tag) ==
  IF tag.current THEN "flag_green"
  ELSE IF tag.bookmark THEN "asterisk_orange"
  ELSE IF tag.find THEN "find"
  ELSE ""

\* new RDTreeWidgetItem({name, eid, duration}): no tag yet, no parent
NewItem(name, eid, duration) ==
  [name |-> name, eidText |-> eid, durText |-> duration,
   tag |-> EventItemTag2(0, 0), icon |-> "",
   children |-> <<>>, parent |-> 0]

setTag(nodes, n, tag) == [nodes EXCEPT ![n].tag = tag]

RefreshIcon(nodes, n, tag) == [nodes EXCEPT ![n].icon = IconOf(tag)]

addChild(nodes, p, c) ==
  [nodes EXCEPT ![p].children = Append(@, c), ![c].parent = p]

childCount(nodes, n) == Len(nodes[n].children)

\* ui->events->topLevelItem(0)
topLevelItem0(nodes) == IF Len(nodes) = 0 THEN 0 ELSE 1

-----------------------------------------------------------------------------
(* AddDrawcalls *)

\* lines 215-221: the last event ID of a draw call without children
MutLeafLastEIDNoMarker(ds, i) == ds[i].eventID

LeafLastEID(ds, i) ==
  IF "SetMarker" \in ds[i].flags /\ i + 1 <= Len(ds)
  THEN ds[i + 1].eventID
  ELSE ds[i].eventID

\* line 213: the EID column of a draw call that spans several events
RangeText(eventID, lastEID) == ToString(eventID) \o "-" \o ToString(lastEID)

\* line 223: the tag of a draw call's item
DrawTag(d, lastEID) == EventItemTag2(d.eventID, lastEID)

RECURSIVE AddDrawcalls(_, _, _)
RECURSIVE AddDrawcallsFrom(_, _, _, _, _)

\* one pass of the loop of AddDrawcalls, from draws[i] on
AddDrawcallsFrom(nodes, parent, ds, i, lastEID) ==
  IF i > Len(ds) THEN [nodes |-> nodes, lastEID |-> lastEID]
  ELSE
    LET d     == ds[i]
        child == Len(nodes) + 1
        n1    == Append(nodes, NewItem(d.name, ToString(d.eventID), "0.0"))
        sub   == AddDrawcalls(n1, child, d.children)
        n2    == IF sub.lastEID > d.eventID
                 THEN [sub.nodes EXCEPT ![child].eidText =
                                           RangeText(d.eventID, sub.lastEID)]
                 ELSE sub.nodes
        last  == IF sub.lastEID = 0 THEN LeafLastEID(ds, i) ELSE sub.lastEID
        n3    == setTag(n2, child, DrawTag(d, last))
        n4    == addChild(n3, parent, child)
    IN AddDrawcallsFrom(n4, parent, ds, i + 1, last)

\* a loop that starts at the second draw call
MutAddDrawcallsFromSecond(nodes, parent, ds) ==
  AddDrawcallsFrom(nodes, parent, ds, 2, 0)

AddDrawcalls(nodes, parent, ds) == AddDrawcallsFrom(nodes, parent, ds, 1, 0)

-----------------------------------------------------------------------------
(* The widgets a handler works on, passed through the functions it calls *)

World ==
  [events |-> events, currentItem |-> currentItem, selectedItem |-> selectedItem,
   curEvent |-> curEvent, buttons |-> m_BookmarkButtons]

SetWorld(w) ==
  /\ events' = w.events
  /\ currentItem' = w.currentItem
  /\ selectedItem' = w.selectedItem
  /\ curEvent' = w.curEvent
  /\ m_BookmarkButtons' = w.buttons

Call(op, arg, ret) ==
  [op |-> op, arg |-> arg, ret |-> ret, key |-> -1, thread |-> "UI"]

\* enum class TimeUnit
TimeUnits == {"Seconds", "Milliseconds", "Microseconds", "Nanoseconds"}

-----------------------------------------------------------------------------
(* uint32_t and int.  The numbers of the model checker end at 2^31 - 1, so  *)
(* ~0U is held as that number: like ~0U it lies above every event ID.       *)

INT_MAX == 2147483647

\* ~0U
UINT_MAX == 2147483647

\* (int)eid: values above INT_MAX wrap to negative ones
ToInt(u) == IF u > INT_MAX THEN ((u - INT_MAX) - 1) - INT_MAX - 1 ELSE u

\* (uint32_t)eid, applied to eid >= 0 only
ToUInt(i) == IF i >= 0 THEN i ELSE (i + INT_MAX) + INT_MAX + 2

-----------------------------------------------------------------------------
(* The current item and the context's event *)

\* highlightBookmarks: a button is checked exactly when its event is current
highlightBookmarks(w) ==
  [w EXCEPT !.buttons =
     [i \in 1..Len(w.buttons) |->
        [w.buttons[i] EXCEPT !.checked = (w.buttons[i].eid = w.curEvent)]]]

\* on_events_currentItemChanged(current, previous)
on_events_currentItemChanged(w, current, previous) ==
  LET n1 == IF previous # 0
            THEN LET tag == [w.events[previous].tag EXCEPT !.current = FALSE]
                 IN RefreshIcon(setTag(w.events, previous, tag), previous, tag)
            ELSE w.events
  IN IF current = 0 THEN [w EXCEPT !.events = n1]
     ELSE LET tag == [n1[current].tag EXCEPT !.current = TRUE]
              n2  == RefreshIcon(setTag(n1, current, tag), current, tag)
          IN highlightBookmarks(
               [w EXCEPT !.events = n2,
                         \* m_Ctx.SetEventID({this}, tag.EID, tag.lastEID)
                         !.curEvent = tag.lastEID])

\* RDTreeWidget::setCurrentItem: currentItemChanged is emitted on a change
setCurrentItem(w, item) ==
  IF item = w.currentItem THEN w
  ELSE on_events_currentItemChanged([w EXCEPT !.currentItem = item],
                                    item, w.currentItem)

setSelectedItem(w, item) == [w EXCEPT !.selectedItem = item]

-----------------------------------------------------------------------------
(* FindEventNode and SelectEvent *)

\* line 832: n replaces found
MutCloserNotLast(nEID, eventID, found, fEID) ==
  nEID >= eventID /\ (found = 0 \/ nEID < fEID)

MutCloserStrict(nEID, eventID, found, fEID) ==
  nEID > eventID /\ (found = 0 \/ nEID <= fEID)

Closer(nEID, eventID, found, fEID) ==
  nEID >= eventID /\ (found = 0 \/ nEID <= fEID)

RECURSIVE FindEventNode(_, _, _, _)
RECURSIVE FindEventNodeFrom(_, _, _, _, _)

\* the loop of FindEventNode from child i (counted from 1) down to the first
FindEventNodeFrom(nodes, found, parent, eventID, i) ==
  IF i < 1 THEN [found |-> found, exact |-> FALSE]
  ELSE
    LET n    == nodes[parent].children[i]
        nEID == nodes[n].tag.lastEID
        fEID == IF found # 0 THEN nodes[found].tag.lastEID ELSE 0
        f1   == IF Closer(nEID, eventID, found, fEID) THEN n ELSE found
    IN IF nEID = eventID /\ childCount(nodes, n) = 0
       THEN [found |-> f1, exact |-> TRUE]
       ELSE IF childCount(nodes, n) > 0
       THEN LET sub == FindEventNode(nodes, f1, n, eventID)
            IN IF sub.exact THEN sub
               ELSE FindEventNodeFrom(nodes, sub.found, parent, eventID, i - 1)
       ELSE FindEventNodeFrom(nodes, f1, parent, eventID, i - 1)

FindEventNode(nodes, found, parent, eventID) ==
  FindEventNodeFrom(nodes, found, parent, eventID, childCount(nodes, parent))

\* SelectEvent: the widgets afterwards and the value returned
SelectEvent(w, eventID) ==
  IF ~logLoaded THEN [w |-> w, ret |-> FALSE]
  ELSE LET found == FindEventNode(w.events, 0, topLevelItem0(w.events), eventID).found
       IN IF found # 0
          THEN [w |-> setSelectedItem(setCurrentItem(w, found), found), ret |-> TRUE]
          ELSE [w |-> w, ret |-> FALSE]

-----------------------------------------------------------------------------
(* Find icons *)

RECURSIVE ClearFindIconsFrom(_, _, _)
\* ClearFindIcons(parent), from child i on
ClearFindIconsFrom(nodes, parent, i) ==
  IF i > childCount(nodes, parent) THEN nodes
  ELSE LET n   == nodes[parent].children[i]
           tag == [nodes[n].tag EXCEPT !.find = FALSE]
           n1  == RefreshIcon(setTag(nodes, n, tag), n, tag)
           n2  == IF childCount(n1, n) > 0 THEN ClearFindIconsFrom(n1, n, 1) ELSE n1
       IN ClearFindIconsFrom(n2, parent, i + 1)

\* ClearFindIcons()
ClearFindIcons(nodes) ==
  IF logLoaded THEN ClearFindIconsFrom(nodes, topLevelItem0(nodes), 1) ELSE nodes

RECURSIVE SetFindIconsFrom(_, _, _, _)
\* SetFindIcons(parent, filter), from child i on: the items and the count
SetFindIconsFrom(nodes, parent, filter, i) ==
  IF i > childCount(nodes, parent) THEN [nodes |-> nodes, results |-> 0]
  ELSE LET n    == nodes[parent].children[i]
           hit  == Contains(nodes[n].name, filter)
           tag  == [nodes[n].tag EXCEPT !.find = TRUE]
           n1   == IF hit THEN RefreshIcon(setTag(nodes, n, tag), n, tag) ELSE nodes
           sub  == IF childCount(n1, n) > 0
                   THEN SetFindIconsFrom(n1, n, filter, 1)
                   ELSE [nodes |-> n1, results |-> 0]
           rest == SetFindIconsFrom(sub.nodes, parent, filter, i + 1)
       IN [nodes   |-> rest.nodes,
           results |-> (IF hit THEN 1 ELSE 0) + sub.results + rest.results]

\* a highlight that leaves the icons of the previous text in place
MutHighlightKeepsIcons(nodes, filter) ==
  IF filter = <<>>
  THEN [nodes |-> nodes, style |-> "red", crash |-> FALSE]
  ELSE IF topLevelItem0(nodes) = 0
  THEN [nodes |-> nodes, style |-> findStyle, crash |-> TRUE]
  ELSE LET r == SetFindIconsFrom(nodes, topLevelItem0(nodes), filter, 1)
       IN [nodes |-> r.nodes,
           style |-> IF r.results > 0 THEN "" ELSE "red",
           crash |-> FALSE]

\* findHighlight_timeout with find text filter: the items, the style of the
\* find box, and whether SetFindIcons dereferenced a NULL top-level item
findHighlight_timeout(nodes, filter) ==
  LET n1 == ClearFindIcons(nodes)
  IN IF filter = <<>>
     THEN [nodes |-> n1, style |-> "red", crash |-> FALSE]
     ELSE IF topLevelItem0(n1) = 0
     THEN [nodes |-> n1, style |-> findStyle, crash |-> TRUE]
     ELSE LET r == SetFindIconsFrom(n1, topLevelItem0(n1), filter, 1)
          IN [nodes |-> r.nodes,
              style |-> IF r.results > 0 THEN "" ELSE "red",
              crash |-> FALSE]

-----------------------------------------------------------------------------
(* FindEvent and Find *)

\* line 972
MatchesAfter(eid, after, forward) ==
  (forward /\ eid > after) \/ (~forward /\ eid < after)

\* a search that takes the next item whatever its name
MutFindHitAnyName(name, eid, filter, after, forward) ==
  MatchesAfter(eid, after, forward)

\* lines 972-978: the item at eid with this name is the one looked for
FindHit(name, eid, filter, after, forward) ==
  MatchesAfter(eid, after, forward) /\ Contains(name, filter)

RECURSIVE FindEvent(_, _, _, _, _)
RECURSIVE FindEventFrom(_, _, _, _, _, _)

\* the loop of FindEvent(parent, filter, after, forward) at child i
FindEventFrom(nodes, parent, filter, after, forward, i) ==
  IF i < 1 \/ i > childCount(nodes, parent) THEN -1
  ELSE LET n    == nodes[parent].children[i]
           eid  == nodes[n].tag.lastEID
           next == IF forward THEN i + 1 ELSE i - 1
       IN IF FindHit(nodes[n].name, eid, filter, after, forward)
          THEN ToInt(eid)
          ELSE IF childCount(nodes, n) > 0
          THEN LET found == FindEvent(nodes, n, filter, after, forward)
               IN IF found > 0 THEN found
                  ELSE FindEventFrom(nodes, parent, filter, after, forward, next)
          ELSE FindEventFrom(nodes, parent, filter, after, forward, next)

FindEvent(nodes, parent, filter, after, forward) ==
  IF parent = 0 THEN -1
  ELSE FindEventFrom(nodes, parent, filter, after, forward,
                     IF forward THEN 1 ELSE childCount(nodes, parent))

\* FindEvent(filter, after, forward)
FindEventTop(nodes, filter, after, forward) ==
  IF ~logLoaded THEN 0
  ELSE FindEvent(nodes, topLevelItem0(nodes), filter, after, forward)

\* Find(forward): the widgets and the style of the find box afterwards
Find(w, forward) ==
  IF findText = <<>> THEN [w |-> w, style |-> findStyle]
  ELSE
    LET curEID == IF w.selectedItem # 0
                  THEN w.events[w.selectedItem].tag.lastEID
                  ELSE w.curEvent
        eid    == FindEventTop(w.events, findText, curEID, forward)
        wrap   == FindEventTop(w.events, findText,
                               IF forward THEN 0 ELSE UINT_MAX, forward)
    IN IF eid >= 0
       THEN [w |-> SelectEvent(w, ToUInt(eid)).w, style |-> ""]
       ELSE IF wrap >= 0
       THEN [w |-> SelectEvent(w, ToUInt(wrap)).w, style |-> ""]
       ELSE [w |-> w, style |-> "red"]

-----------------------------------------------------------------------------
(* Bookmarks *)

\* clearBookmarks
clearBookmarks ==
  /\ m_Bookmarks' = <<>>
  /\ m_BookmarkButtons' = <<>>
  /\ bookmarkStrip' = FALSE

\* QList::indexOf, counted from 0, -1 when absent
IndexOf(list, x) ==
  LET at == { i \in 1..Len(list) : list[i] = x }
  IN IF at = {} THEN -1 ELSE (CHOOSE i \in at : \A k \in at : i <= k) - 1

\* QList::removeAt and takeAt, index counted from 0
RemoveAt(list, index) ==
  SubSeq(list, 1, index) \o SubSeq(list, index + 2, Len(list))

\* lines 733-739 and 760-766: the bookmark flag of the item found
SetBookmarkFlag(nodes, found, flag) ==
  IF found = 0 THEN nodes
  ELSE LET tag == [nodes[found].tag EXCEPT !.bookmark = flag]
       IN RefreshIcon(setTag(nodes, found, tag), found, tag)

\* a toggle that never looks the event up and always adds it
MutToggleAlwaysAdds(w, bookmarks, EID) ==
  [w         |-> [w EXCEPT !.buttons = Append(@, [eid |-> EID, checked |-> FALSE])],
   bookmarks |-> Append(bookmarks, EID)]

\* toggleBookmark(EID): the widgets and m_Bookmarks afterwards
toggleBookmark(w, bookmarks, EID) ==
  LET index == IndexOf(bookmarks, EID)
      found == FindEventNode(w.events, 0, topLevelItem0(w.events), EID).found
  IN IF index >= 0
     THEN [w         |-> [w EXCEPT !.buttons = RemoveAt(@, index),
                                   !.events = SetBookmarkFlag(@, found, FALSE)],
           bookmarks |-> RemoveAt(bookmarks, index)]
     ELSE LET w1 == highlightBookmarks(
                      [w EXCEPT !.buttons = Append(@, [eid |-> EID, checked |-> FALSE])])
          IN [w         |-> [w1 EXCEPT !.events = SetBookmarkFlag(@, found, TRUE)],
              bookmarks |-> Append(bookmarks, EID)]

\* a jump that counts the bookmarks from the newest
MutJumpFromNewest(w, bookmarks, idx) ==
  IF idx < 0 \/ idx >= Len(bookmarks) \/ ~logLoaded THEN w
  ELSE SelectEvent(w, bookmarks[Len(bookmarks) - idx]).w

\* jumpToBookmark(idx)
jumpToBookmark(w, bookmarks, idx) ==
  IF idx < 0 \/ idx >= Len(bookmarks) \/ ~logLoaded THEN w
  ELSE SelectEvent(w, bookmarks[idx + 1]).w

\* lines 112-115: the digits of Qt::Key_1 .. Qt::Key_9, Qt::Key_0
MutShortcutKeysFromZero == <<0, 1, 2, 3, 4, 5, 6, 7, 8, 9>>

ShortcutKeys == <<1, 2, 3, 4, 5, 6, 7, 8, 9, 0>>

-----------------------------------------------------------------------------
(* Loading and closing a capture *)

\* line 160: the tag of the frame item
MutFrameTagOwnEvent(lastEID) == EventItemTag1(0)

FrameTag(lastEID) == EventItemTag2(0, lastEID)

\* lines 149-160: the frame item, the 'Frame Start' item and the draw calls
BuildFrame(ds) ==
  LET frame == NewItem(NameFrame, "", "")
      start == [NewItem(NameFrameStart, "0", "") EXCEPT !.tag = EventItemTag2(0, 0)]
      n1    == addChild(<<frame, start>>, 1, 2)
      built == AddDrawcalls(n1, 1, ds)
  IN [nodes   |-> setTag(built.nodes, 1, FrameTag(built.lastEID)),
      lastEID |-> built.lastEID]

\* the context loads capture ds and OnLogfileLoaded runs
OnLogfileLoaded(ds) ==
  /\ ~crashed
  /\ ~logLoaded
  /\ logLoaded' = TRUE
  /\ draws' = ds
  /\ LET built == BuildFrame(ds)
     IN /\ events' = built.nodes
        \* m_Ctx.SetEventID({this}, lastEID, lastEID)
        /\ curEvent' = built.lastEID
  /\ clearBookmarks
  /\ enabled' = TRUE
  /\ UNCHANGED <<currentItem, selectedItem, findVars, crashed, timeVars, pipeVars>>
  /\ lastCall' = Call("OnLogfileLoaded", -1, TRUE)

\* the context closes the capture and OnLogfileClosed runs
OnLogfileClosed ==
  /\ ~crashed
  /\ logLoaded
  /\ logLoaded' = FALSE
  /\ draws' = <<>>
  /\ curEvent' = 0
  /\ clearBookmarks
  \* ui->events->clear()
  /\ events' = <<>>
  /\ currentItem' = 0
  /\ selectedItem' = 0
  /\ enabled' = FALSE
  /\ UNCHANGED <<findVars, crashed, timeVars, pipeVars>>
  /\ lastCall' = Call("OnLogfileClosed", -1, TRUE)

-----------------------------------------------------------------------------
(* The D3D12 pipeline state viewer                                          *)
(* (Windows/PipelineState/D3D12PipelineStateViewer.cpp).  A table is the    *)
(* sequence of its rows; a row holds its cells as strings, its tag, its     *)
(* tool tip (the lines of the text), its background and whether it is set   *)
(* in italics.  Fonts, scroll positions and selections are not held.        *)

\* enum ViewTag::ResType
SRV == 0
UAV == 1
OMTarget == 2
OMDepth == 3

\* a NULL pointer
NULL == [null |-> TRUE]

\* ResourceId(): the null resource
NoResource == 0

\* the resources of the capture: m_Ctx.GetTexture and m_Ctx.GetBuffer find a
\* texture under ID 1 and a buffer under ID 2
TextureID == 1
BufferID == 2

FormatUNorm == [strname |-> "R8G8B8A8_UNORM", compType |-> "UNorm"]
FormatTypeless == [strname |-> "R8G8B8A8_TYPELESS", compType |-> "Typeless"]

GetTexture(id) ==
  IF id = TextureID
  THEN [ID |-> TextureID, name |-> "Backbuffer", format |-> FormatUNorm,
        width |-> 4, height |-> 4, depth |-> 1, arraysize |-> 1, mips |-> 1,
        resType |-> "Texture2D", msSamp |-> 1]
  ELSE NULL

GetBuffer(id) ==
  IF id = BufferID THEN [ID |-> BufferID, name |-> "Buffer", length |-> 64] ELSE NULL

\* D3D12Pipe::View
View(rootElement, resource, format) ==
  [RootElement |-> rootElement, Immediate |-> FALSE, TableIndex |-> 0,
   Resource |-> resource, Format |-> format,
   HighestMip |-> 0, NumMipLevels |-> 1, FirstArraySlice |-> 0, ArraySize |-> 1,
   FirstElement |-> 0, NumElements |-> 16, ElementSize |-> 4,
   BufferFlags |-> {}, CounterResource |-> NoResource, BufferStructCount |-> 0]

\* ViewTag(t, s, r, rs)
ViewTag(t, s, r, rs) == [type |-> t, space |-> s, reg |-> r, res |-> rs]

\* CBufTag(i) and CBufTag(s, r)
CBufTag1(i) == [idx |-> i, space |-> 0, reg |-> 0]
CBufTag2(s, r) == [idx |-> UINT_MAX, space |-> s, reg |-> r]

\* what a handler of the viewer reads: the two checkboxes and the context
ViewerContext(sd, se, st, dr, loaded) ==
  [showDisabled |-> sd, showEmpty |-> se, state |-> st, draw |-> dr,
   LogLoaded |-> loaded]

\* new RDTreeWidgetItem({...})
NewRow(cells) ==
  [cells |-> cells, tag |-> <<>>, toolTip |-> <<>>, background |-> "", italic |-> FALSE]

\* setInactiveRow
setInactiveRow(node) == [node EXCEPT !.italic = TRUE]

\* setEmptyRow
setEmptyRow(node) == [node EXCEPT !.background = "255,70,70"]

\* a show rule that lets the checkboxes hide the slots the shader uses
MutShowNodeNeedsFilled(c, usedSlot, filledSlot) ==
  \/ (usedSlot /\ filledSlot)
  \/ (c.showDisabled /\ ~usedSlot /\ filledSlot)
  \/ (c.showEmpty /\ ~filledSlot)

\* showNode(usedSlot, filledSlot)
showNode(c, usedSlot, filledSlot) ==
  IF usedSlot THEN TRUE
  ELSE IF c.showDisabled /\ ~usedSlot /\ filledSlot THEN TRUE
  ELSE IF c.showEmpty /\ ~filledSlot THEN TRUE
  ELSE FALSE

\* lines 659-664: regMatch of bindpoint b for register reg; array sizes other
\* than ~0U are below 2^31
RegMatch(b, reg) ==
  IF b.bind <= reg
  THEN (b.arraySize = UINT_MAX) \/ (b.bind + ToInt(b.arraySize) > reg)
  ELSE b.bind = reg

\* lines 655-673, 1019-1036 and 1122-1143: the index of the first bindpoint
\* that matches (space, reg), 0 when the loop ends without one; kinds holds
\* the IsSampler values the caller accepts
RECURSIVE FirstBind(_, _, _, _, _, _)
FirstBind(binds, res, space, reg, kinds, i) ==
  IF i > Len(binds) THEN 0
  ELSE IF /\ binds[i].bindset = space
          /\ RegMatch(binds[i], reg)
          /\ res[i].IsSampler \in kinds
       THEN i
       ELSE FirstBind(binds, res, space, reg, kinds, i + 1)

\* HasImportantViewParams(view, tex)
HasImportantViewParamsTex(view, tex) ==
  \/ view.HighestMip > 0
  \/ view.FirstArraySlice > 0
  \/ (view.NumMipLevels < tex.mips /\ tex.mips > 1)
  \/ (view.ArraySize < tex.arraysize /\ tex.arraysize > 1)
  \/ (view.Format.compType # "Typeless" /\ view.Format # tex.format)

\* HasImportantViewParams(view, buf)
HasImportantViewParamsBuf(view, buf) ==
  \/ view.FirstElement > 0
  \/ view.NumElements * view.ElementSize < buf.length

\* lines 524-531 and 600-607: the line about the state of the resource
ResourceStateLine(c, id, what) ==
  LET known == { i \in 1..Len(c.state.Resources) : c.state.Resources[i].id = id }
  IN IF known = {} THEN <<>>
     ELSE <<what \o " is in the '"
              \o c.state.Resources[CHOOSE i \in known : \A k \in known : i <= k].state
              \o "' state">>

\* setViewDetails(node, view, tex)
setViewDetailsTex(c, node, view, tex) ==
  IF tex = NULL THEN node
  ELSE LET res == view.res
           fmt == IF res.Format # tex.format
                  THEN <<"The texture is format " \o tex.format.strname
                           \o ", the view treats it as " \o res.Format.strname>>
                  ELSE <<>>
           dep == IF view.space = OMDepth
                  THEN (IF c.state.m_OM.DepthReadOnly
                        THEN <<"Depth component is read-only">> ELSE <<>>)
                       \o (IF c.state.m_OM.StencilReadOnly
                           THEN <<"Stencil component is read-only">> ELSE <<>>)
                  ELSE <<>>
           mipd == tex.mips > 1 /\ (tex.mips # res.NumMipLevels \/ res.HighestMip > 0)
           mip == IF mipd THEN <<"The texture has " \o ToString(tex.mips) \o " mips">>
                  ELSE <<>>
           arrd == /\ tex.arraysize > 1
                   /\ (tex.arraysize # res.ArraySize \/ res.FirstArraySlice > 0)
           arr == IF arrd
                  THEN <<"The texture has " \o ToString(tex.arraysize) \o " array slices">>
                  ELSE <<>>
           viewdetails == res.Format # tex.format \/ mipd \/ arrd
       IN [node EXCEPT
             !.toolTip = ResourceStateLine(c, tex.ID, "Texture") \o fmt \o dep \o mip \o arr,
             !.background = IF viewdetails THEN "127,255,212" ELSE @]

\* setViewDetails(node, view, buf)
setViewDetailsBuf(c, node, view, buf) ==
  IF buf = NULL THEN node
  ELSE LET res == view.res
           viewdetails == \/ res.FirstElement * res.ElementSize > 0
                          \/ res.NumElements * res.ElementSize < buf.length
           cov == IF viewdetails
                  THEN <<"The view covers bytes "
                           \o ToString(res.FirstElement * res.ElementSize) \o "-"
                           \o ToString((res.FirstElement + res.NumElements) * res.ElementSize)>>
                  ELSE <<>>
       IN [node EXCEPT
             !.toolTip = ResourceStateLine(c, buf.ID, "Buffer") \o cov,
             !.background = IF viewdetails THEN "127,255,212" ELSE @]

\* lines 676-677: the root element cell of a view
ViewRootElement(r) ==
  IF r.Immediate THEN "#" \o ToString(r.RootElement) \o " Direct"
  ELSE "#" \o ToString(r.RootElement) \o " Table[" \o ToString(r.TableIndex) \o "]"

\* lines 694-700 and 1044-1047: the register cell, QString::number(reg) and
\* the name of the shader's resource if it has one
RegisterName(reg, shaderInput) ==
  IF shaderInput # NULL /\ shaderInput.name # ""
  THEN ToString(reg) \o ": " \o shaderInput.name
  ELSE ToString(reg)

\* lines 702-773: name, type, size and format cells of the row of a view
ViewCells(view, shaderInput, filledSlot) ==
  LET r   == view.res
      uav == view.type = UAV
      rw  == IF uav THEN "RW" ELSE ""
      tex == GetTexture(r.Resource)
      buf == GetBuffer(r.Resource)
      c0  == IF filledSlot
             THEN [name |-> "Shader Resource " \o ToString(r.Resource),
                   typeName |-> "Unknown", w |-> 1, h |-> 1, d |-> 1, a |-> 1,
                   format |-> "Unknown"]
             ELSE [name |-> "Empty", typeName |-> "-", w |-> 0, h |-> 0, d |-> 0, a |-> 0,
                   format |-> "-"]
      c1  == IF tex = NULL THEN c0
             ELSE [name |-> tex.name,
                   typeName |-> IF tex.resType \in {"Texture2DMS", "Texture2DMSArray"}
                                THEN tex.resType \o " " \o ToString(tex.msSamp) \o "x"
                                ELSE tex.resType,
                   w |-> tex.width, h |-> tex.height, d |-> tex.depth, a |-> tex.arraysize,
                   format |-> IF tex.format # r.Format
                              THEN "Viewed as " \o r.Format.strname
                              ELSE tex.format.strname]
      elems == IF buf # NULL /\ r.ElementSize > 0 THEN buf.length \div r.ElementSize ELSE 0
      type0 == IF "Raw" \in r.BufferFlags THEN rw \o "ByteAddressBuffer"
               ELSE IF r.ElementSize > 0
                    THEN rw \o "StructuredBuffer[" \o ToString(elems) \o "]"
                    ELSE "Buffer"
      type1 == IF r.CounterResource # NoResource
               THEN type0 \o " (Count: " \o ToString(r.BufferStructCount) \o ")"
               ELSE type0
      fmt   == IF shaderInput # NULL /\ ~shaderInput.IsTexture
               THEN IF shaderInput.variableType.members > 0
                    THEN "struct " \o shaderInput.variableType.name
                    ELSE IF r.Format.compType = "Typeless"
                         THEN shaderInput.variableType.name
                         ELSE r.Format.strname
               ELSE ""
      c2  == IF buf = NULL THEN c1
             ELSE [name |-> buf.name, typeName |-> type1, w |-> buf.length, h |-> 0, d |-> 0,
                   a |-> IF "Raw" \notin r.BufferFlags /\ r.ElementSize > 0 THEN elems ELSE 0,
                   format |-> fmt]
  IN c2

\* lines 678-683: a view with a resource in the output merger counts as used
TargetIsUsed(view) == view.space = OMTarget \/ view.space = OMDepth

\* addResourceRow(view, stage, resources): the rows of the table afterwards
addResourceRow(c, view, stage, resources) ==
  LET r     == view.res
      uav   == view.type = UAV
      refl  == stage # NULL /\ stage.ShaderDetails # NULL
      binds == IF ~refl THEN <<>>
               ELSE IF uav THEN stage.BindpointMapping.ReadWriteResources
               ELSE stage.BindpointMapping.ReadOnlyResources
      res   == IF ~refl THEN <<>>
               ELSE IF uav THEN stage.ShaderDetails.ReadWriteResources
               ELSE stage.ShaderDetails.ReadOnlyResources
      bind  == FirstBind(binds, res, view.space, view.reg, {FALSE}, 1)
      shaderInput == IF bind = 0 THEN NULL ELSE res[bind]
      filledSlot  == r.Resource # NoResource
      usedSlot    == \/ (bind # 0 /\ binds[bind].used)
                     \/ (filledSlot /\ TargetIsUsed(view))
      tex   == GetTexture(r.Resource)
      buf   == GetBuffer(r.Resource)
      viewDetails ==
        \/ /\ view.space = OMDepth
           /\ (c.state.m_OM.DepthReadOnly \/ c.state.m_OM.StencilReadOnly)
        \/ (tex # NULL /\ HasImportantViewParamsTex(r, tex))
        \/ (buf # NULL /\ HasImportantViewParamsBuf(r, buf))
      regname == IF view.space = OMDepth THEN "Depth"
                 ELSE RegisterName(view.reg, shaderInput)
      \* lines 783-786: the node of the cells
      Node(cells) ==
        [NewRow(<<ViewRootElement(r), ToString(view.space), regname, cells.name,
                  cells.typeName, ToString(cells.w), ToString(cells.h),
                  ToString(cells.d), ToString(cells.a), cells.format, "">>)
           EXCEPT !.tag = view]
      \* lines 788-794
      Details(node) ==
        IF ~viewDetails THEN node
        ELSE IF tex # NULL THEN setViewDetailsTex(c, node, view, tex)
        ELSE IF buf # NULL THEN setViewDetailsBuf(c, node, view, buf)
        ELSE node
      \* lines 796-800
      Empty(node) == IF ~filledSlot THEN setEmptyRow(node) ELSE node
      Inactive(node) == IF ~usedSlot THEN setInactiveRow(node) ELSE node
  IN IF r.RootElement = UINT_MAX THEN resources
     ELSE IF showNode(c, usedSlot, filledSlot)
          THEN Append(resources,
                      Inactive(Empty(Details(Node(ViewCells(view, shaderInput, filledSlot))))))
     ELSE resources

\* lines 1049-1077: the addressing cell of a sampler, like UVW: WRAP or
\* UV: WRAP, W: CLAMP
RECURSIVE SamplerAddressing(_, _, _, _, _)
SamplerAddressing(addr, a, addressing, addPrefix, addVal) ==
  IF a > 3 THEN addressing \o addPrefix \o ": " \o addVal
  ELSE LET prefix == <<"U", "V", "W">>[a]
       IN IF a = 1 \/ addr[a] = addr[a - 1]
          THEN SamplerAddressing(addr, a + 1, addressing, addPrefix \o prefix, addr[a])
          ELSE SamplerAddressing(addr, a + 1,
                                 addressing \o addPrefix \o ": " \o addVal \o ", ",
                                 prefix, addr[a])

\* lines 1010-1103: the row of the sampler at (space, reg), if it is shown
AddSamplerRow(c, stage, samplers, space, reg) ==
  LET s     == stage.Spaces[space + 1].Samplers[reg + 1]
      refl  == stage.ShaderDetails # NULL
      binds == IF refl THEN stage.BindpointMapping.ReadOnlyResources ELSE <<>>
      res   == IF refl THEN stage.ShaderDetails.ReadOnlyResources ELSE <<>>
      bind  == FirstBind(binds, res, space, reg, {TRUE}, 1)
      shaderInput == IF bind = 0 THEN NULL ELSE res[bind]
      rootel == IF s.Immediate THEN "#" \o ToString(s.RootElement) \o " Static"
                ELSE "#" \o ToString(s.RootElement) \o " Table["
                       \o ToString(s.TableIndex) \o "]"
      filledSlot == s.Filter.minify # "NoFilter"
      usedSlot   == bind # 0 /\ binds[bind].used
      addressing == SamplerAddressing(<<s.AddressU, s.AddressV, s.AddressW>>, 1, "", "", "")
                      \o (IF s.UseBorder THEN "<" \o s.BorderColor \o ">" ELSE "")
      filter == s.Filter.minify
                  \o (IF s.MaxAniso > 1 THEN " " \o ToString(s.MaxAniso) \o "x" ELSE "")
                  \o (IF s.Filter.func = "Comparison" THEN " (" \o s.Comparison \o ")"
                      ELSE IF s.Filter.func # "Normal" THEN " (" \o s.Filter.func \o ")"
                      ELSE "")
      node == NewRow(<<rootel, ToString(space), RegisterName(reg, shaderInput), addressing,
                       filter, s.MinLOD \o " - " \o s.MaxLOD, s.MipLODBias>>)
      Empty(n) == IF ~filledSlot THEN setEmptyRow(n) ELSE n
      Inactive(n) == IF ~usedSlot THEN setInactiveRow(n) ELSE n
  IN IF s.RootElement = UINT_MAX THEN samplers
     ELSE IF showNode(c, usedSlot, filledSlot) THEN Append(samplers, Inactive(Empty(node)))
     ELSE samplers

\* lines 1112-1215: the row of the constant buffer at (space, reg), if shown
AddCBufferRow(c, stage, cbuffers, space, reg) ==
  LET b     == stage.Spaces[space + 1].ConstantBuffers[reg + 1]
      refl  == stage.ShaderDetails # NULL
      binds == IF refl THEN stage.BindpointMapping.ConstantBlocks ELSE <<>>
      res   == IF refl THEN [i \in 1..Len(binds) |-> [IsSampler |-> FALSE]] ELSE <<>>
      bind  == FirstBind(binds, res, space, reg, {FALSE}, 1)
      shaderCBuf == IF bind = 0 THEN NULL ELSE stage.ShaderDetails.ConstantBlocks[bind]
      \* CBufTag(i) holds the C++ index of the bindpoint
      tag   == IF bind # 0 THEN CBufTag1(bind - 1) ELSE CBufTag2(space, reg)
      consts == b.Immediate /\ b.RootValues > 0
      rootel == IF b.Immediate
                THEN IF b.RootValues > 0 THEN "#" \o ToString(b.RootElement) \o " Consts"
                     ELSE "#" \o ToString(b.RootElement) \o " Direct"
                ELSE "#" \o ToString(b.RootElement) \o " Table["
                       \o ToString(b.TableIndex) \o "]"
      filledSlot == b.Buffer # NoResource \/ consts
      usedSlot   == bind # 0 /\ binds[bind].used
      length   == b.ByteSize
      numvars  == IF shaderCBuf # NULL THEN shaderCBuf.variables ELSE 0
      bytesize == IF consts THEN b.RootValues * 4
                  ELSE IF shaderCBuf # NULL THEN shaderCBuf.byteSize ELSE 0
      buf  == GetBuffer(b.Buffer)
      name == IF buf # NULL THEN buf.name
              ELSE IF ~filledSlot THEN "Empty"
              ELSE "Constant Buffer " \o ToString(b.Buffer)
      sizestr == IF bytesize = length
                 THEN ToString(numvars) \o " Variables, " \o ToString(length) \o " bytes"
                 ELSE ToString(numvars) \o " Variables, " \o ToString(bytesize)
                        \o " bytes needed, " \o ToString(length) \o " provided"
      \* line 1198: a buffer too small for the block is drawn as empty
      drawnFilled == filledSlot /\ ~(length < bytesize)
      node == [NewRow(<<rootel, ToString(space), RegisterName(reg, shaderCBuf), name,
                        ToString(b.Offset), sizestr, "">>) EXCEPT !.tag = tag]
      Empty(n) == IF ~drawnFilled THEN setEmptyRow(n) ELSE n
      Inactive(n) == IF ~usedSlot THEN setInactiveRow(n) ELSE n
  IN IF showNode(c, usedSlot, filledSlot) THEN Append(cbuffers, Inactive(Empty(node)))
     ELSE cbuffers

\* lines 964-971, 977-984, 990-997, 1111-1118: the four loops over the
\* registers of every space, in order of space and register; table names the
\* array of the space the loop walks
RECURSIVE ForEachRegister(_, _, _, _, _, _)
ForEachRegister(c, stage, table, space, reg, rows) ==
  LET sp == stage.Spaces[space + 1]
      count == CASE table = "SRVs" -> Len(sp.SRVs)
                 [] table = "UAVs" -> Len(sp.UAVs)
                 [] table = "Samplers" -> Len(sp.Samplers)
                 [] table = "ConstantBuffers" -> Len(sp.ConstantBuffers)
      added == CASE table = "SRVs" ->
                      addResourceRow(c, ViewTag(SRV, space, reg, sp.SRVs[reg + 1]), stage, rows)
                 [] table = "UAVs" ->
                      addResourceRow(c, ViewTag(UAV, space, reg, sp.UAVs[reg + 1]), stage, rows)
                 [] table = "Samplers" -> AddSamplerRow(c, stage, rows, space, reg)
                 [] table = "ConstantBuffers" -> AddCBufferRow(c, stage, rows, space, reg)
  IN IF space >= Len(stage.Spaces) THEN rows
     ELSE IF reg >= count THEN ForEachRegister(c, stage, table, space + 1, 0, rows)
     ELSE ForEachRegister(c, stage, table, space, reg + 1, added)

\* m_Ctx.CurPipelineState().Abbrev(stage)
Abbrev(stage) ==
  CASE stage = "Vertex" -> "VS" [] stage = "Hull" -> "HS" [] stage = "Domain" -> "DS"
    [] stage = "Geometry" -> "GS" [] stage = "Pixel" -> "PS" [] stage = "Compute" -> "CS"

\* lines 933-952: the text of the shader label
ShaderLabel(c, stage) ==
  LET details == stage.ShaderDetails
  IN IF /\ details # NULL
        /\ details.DebugInfo.entryFunc # ""
        /\ details.DebugInfo.files # <<>>
     THEN LET f0 == details.DebugInfo.entryFile
              entryFile == IF f0 < 0 \/ f0 >= Len(details.DebugInfo.files) THEN 0 ELSE f0
          IN details.DebugInfo.entryFunc \o "() - " \o details.DebugInfo.files[entryFile + 1].first.fileName
     ELSE IF stage.Object = NoResource THEN "Unbound Shader"
     ELSE IF c.state.customName THEN c.state.name \o " - " \o Abbrev(stage.stage)
     ELSE c.state.name \o " - " \o stage.stage \o " Shader"

\* setShaderState(stage, shader, resources, samplers, cbuffers, uavs): the
\* label and the four tables of the stage afterwards
setShaderState(c, stage) ==
  LET Tables(rows) ==
        [shader    |-> ShaderLabel(c, stage),
         resources |-> rows["SRVs"],
         uavs      |-> rows["UAVs"],
         samplers  |-> rows["Samplers"],
         cbuffers  |-> rows["ConstantBuffers"]]
  IN Tables([table \in {"SRVs", "UAVs", "Samplers", "ConstantBuffers"} |->
               ForEachRegister(c, stage, table, 0, 0, <<>>)])

\* clearShaderState(shader, tex, samp, cbuffer, sub)
clearShaderState ==
  [shader |-> "Unbound Shader", resources |-> <<>>, uavs |-> <<>>, samplers |-> <<>>,
   cbuffers |-> <<>>]

\* Pixmaps::tick() and Pixmaps::cross()
Pixmap(b) == IF b THEN "tick" ELSE "cross"

\* ui->pipeFlow->setStagesEnabled of IA, VS, HS, DS, GS, RS, PS, OM, CS
AllStages == <<TRUE, TRUE, TRUE, TRUE, TRUE, TRUE, TRUE, TRUE, TRUE>>

\* clearState(): every widget it touches; the others keep what they hold
clearState(ui) ==
  [ui EXCEPT
     !.iaLayouts = <<>>, !.iaBuffers = <<>>, !.topology = "", !.topologyDiagram = "",
     !.vs = clearShaderState, !.gs = clearShaderState, !.hs = clearShaderState,
     !.ds = clearShaderState, !.ps = clearShaderState, !.cs = clearShaderState,
     !.fillMode = "Solid", !.cullMode = "Front", !.frontCCW = "tick",
     !.conservativeRaster = "cross",
     !.depthBias = "0.0", !.depthBiasClamp = "0.0", !.slopeScaledBias = "0.0",
     !.forcedSampleCount = "0",
     !.depthClip = "tick", !.multisample = "tick", !.lineAA = "tick",
     !.sampleMask = "FFFFFFFF",
     !.independentBlend = "cross", !.alphaToCoverage = "tick",
     !.blendFactor = "0.00, 0.00, 0.00, 0.00",
     !.viewports = <<>>, !.scissors = <<>>, !.targetOutputs = <<>>, !.blends = <<>>,
     !.depthEnabled = "tick", !.depthFunc = "GREATER_EQUAL", !.depthWrite = "tick",
     !.stencilEnabled = "cross", !.stencilReadMask = "FF", !.stencilWriteMask = "FF",
     !.stencilRef = "FF", !.stencils = <<>>]

\* the widgets as setupUi leaves them: empty tables and labels, everything
\* visible
SetupUi ==
  [f \in {"iaLayouts", "iaBuffers", "gsStreamOut", "viewports", "scissors",
          "targetOutputs", "blends", "stencils"} |-> <<>>]
  @@ [f \in {"topology", "topologyDiagram", "fillMode", "cullMode", "frontCCW",
             "conservativeRaster", "depthBias", "depthBiasClamp", "slopeScaledBias",
             "forcedSampleCount", "depthClip", "multisample", "lineAA", "sampleMask",
             "independentBlend", "alphaToCoverage", "blendFactor", "depthEnabled",
             "depthFunc", "depthWrite", "stencilEnabled", "stencilReadMask",
             "stencilWriteMask", "stencilRef"} |-> ""]
  @@ [f \in {"vs", "hs", "ds", "gs", "ps", "cs"} |->
        [shader |-> "", resources |-> <<>>, uavs |-> <<>>, samplers |-> <<>>,
         cbuffers |-> <<>>]]
  @@ [f \in {"gsStreamOutVisible", "soGroupVisible"} |-> TRUE]
  @@ [f \in {"pipeFlow"} |-> AllStages]

\* lines 1251-1298: the rows of the input layouts and the vertex buffer slots
\* the vertex shader reads; layoutOffs holds the running offset of each slot
RECURSIVE InputLayouts(_, _, _, _, _, _)
InputLayouts(c, layouts, i, layoutOffs, usedVBuffers, rows) ==
  IF i >= Len(layouts) THEN [rows |-> rows, usedVBuffers |-> usedVBuffers]
  ELSE LET l == layouts[i + 1]
           prev == IF l.InputSlot \in DOMAIN layoutOffs THEN layoutOffs[l.InputSlot] ELSE 0
           byteOffs == IF l.ByteOffset = UINT_MAX
                       THEN "APPEND_ALIGNED (" \o ToString(prev) \o ")"
                       ELSE ToString(l.ByteOffset)
           offs == (IF l.ByteOffset = UINT_MAX THEN prev ELSE l.ByteOffset)
                     + l.Format.compByteWidth * l.Format.compCount
           sig == IF c.state.m_VS.ShaderDetails = NULL THEN <<>>
                  ELSE c.state.m_VS.ShaderDetails.InputSig
           usedSlot == \E ia \in 1..Len(sig) :
                         /\ ToLower(sig[ia].semanticName) = ToLower(l.SemanticName)
                         /\ sig[ia].semanticIndex = l.SemanticIndex
           n0 == NewRow(<<ToString(i), l.SemanticName, ToString(l.SemanticIndex),
                          l.Format.strname, ToString(l.InputSlot), byteOffs,
                          IF l.PerInstance THEN "PER_INSTANCE" ELSE "PER_VERTEX",
                          ToString(l.InstanceDataStepRate), "">>)
           n1 == IF ~usedSlot THEN setInactiveRow(n0) ELSE n0
       IN InputLayouts(c, layouts, i + 1,
                       [s \in DOMAIN layoutOffs \cup {l.InputSlot} |->
                          IF s = l.InputSlot THEN offs ELSE layoutOffs[s]],
                       IF usedSlot /\ showNode(c, usedSlot, TRUE)
                       THEN usedVBuffers \cup {l.InputSlot} ELSE usedVBuffers,
                       IF showNode(c, usedSlot, TRUE) THEN Append(rows, n1) ELSE rows)

\* PatchList_Count(topo)
PatchList_Count(topo) ==
  CASE topo = "PatchList_1CPs" -> 1
    [] topo = "PatchList_3CPs" -> 3
    [] OTHER -> 0

\* lines 1313-1331: the pixmap of the topology diagram
TopologyDiagram(topo) ==
  CASE topo = "PointList" -> "topo_pointlist"
    [] topo = "LineList" -> "topo_linelist"
    [] topo = "LineStrip" -> "topo_linestrip"
    [] topo = "TriangleList" -> "topo_trilist"
    [] topo = "TriangleStrip" -> "topo_tristrip"
    [] topo = "LineList_Adj" -> "topo_linelist_adj"
    [] topo = "LineStrip_Adj" -> "topo_linestrip_adj"
    [] topo = "TriangleList_Adj" -> "topo_trilist_adj"
    [] topo = "TriangleStrip_Adj" -> "topo_tristrip_adj"
    [] OTHER -> "topo_patch"

\* lines 1333-1397: the row of the index buffer, if it is shown
IndexBufferRows(c) ==
  LET ib == c.state.m_IA.ibuffer
      ibufferUsed == c.draw # NULL /\ "UseIBuffer" \in c.draw.flags
      buf == GetBuffer(ib.Buffer)
      tag == [id |-> ib.Buffer, offset |-> IF c.draw # NULL THEN c.draw.indexOffset ELSE 0]
      set == [NewRow(<<"Index",
                       IF buf # NULL THEN buf.name ELSE "Buffer " \o ToString(ib.Buffer),
                       ToString(IF c.draw # NULL THEN c.draw.indexByteWidth ELSE 0),
                       ToString(ib.Offset),
                       ToString(IF buf # NULL THEN buf.length
                                ELSE IF ibufferUsed THEN 1 ELSE 0), "">>)
                EXCEPT !.tag = tag]
      unset == setEmptyRow([NewRow(<<"Index", "No Buffer Set", "-", "-", "-", "">>)
                              EXCEPT !.tag = tag])
  IN IF ib.Buffer # NoResource
     THEN IF ibufferUsed \/ c.showDisabled
          THEN <<IF ~ibufferUsed THEN setInactiveRow(set) ELSE set>>
          ELSE <<>>
     ELSE IF ibufferUsed \/ c.showEmpty
          THEN <<IF ~ibufferUsed THEN setInactiveRow(unset) ELSE unset>>
          ELSE <<>>

\* lines 1401-1446: the rows of the vertex buffers that are shown
RECURSIVE VertexBufferRows(_, _, _, _, _)
VertexBufferRows(c, vbuffers, usedVBuffers, i, rows) ==
  IF i >= Len(vbuffers) THEN rows
  ELSE LET v == vbuffers[i + 1]
           filledSlot == v.Buffer # NoResource
           usedSlot == i \in usedVBuffers
           buf == GetBuffer(v.Buffer)
           n0 == IF filledSlot
                 THEN NewRow(<<ToString(i),
                               IF buf # NULL THEN buf.name ELSE "Buffer " \o ToString(v.Buffer),
                               ToString(v.Stride), ToString(v.Offset),
                               ToString(IF buf # NULL THEN buf.length ELSE 1), "">>)
                 ELSE NewRow(<<ToString(i), "No Buffer Set", "-", "-", "-", "">>)
           n1 == [n0 EXCEPT !.tag = [id |-> v.Buffer, offset |-> v.Offset]]
           n2 == IF ~filledSlot THEN setEmptyRow(n1) ELSE n1
           n3 == IF ~usedSlot THEN setInactiveRow(n2) ELSE n2
       IN VertexBufferRows(c, vbuffers, usedVBuffers, i + 1,
                           IF showNode(c, usedSlot, filledSlot) THEN Append(rows, n3)
                           ELSE rows)

\* lines 1468-1507: the rows of the stream-out targets that are shown
RECURSIVE StreamOutRows(_, _, _, _)
StreamOutRows(c, outputs, i, rows) ==
  IF i >= Len(outputs) THEN rows
  ELSE LET s == outputs[i + 1]
           filledSlot == s.Buffer # NoResource
           usedSlot == filledSlot
           buf == GetBuffer(s.Buffer)
           name == IF buf # NULL THEN buf.name
                   ELSE IF ~filledSlot THEN "Empty"
                   ELSE "Buffer " \o ToString(s.Buffer)
           n0 == [NewRow(<<ToString(i), name,
                           ToString(IF buf # NULL THEN buf.length ELSE 0),
                           ToString(s.Offset), "">>) EXCEPT !.tag = s.Buffer]
           n1 == IF ~filledSlot THEN setEmptyRow(n0) ELSE n0
           n2 == IF ~usedSlot THEN setInactiveRow(n1) ELSE n1
       IN StreamOutRows(c, outputs, i + 1,
                        IF showNode(c, usedSlot, filledSlot) THEN Append(rows, n2) ELSE rows)

\* lines 1521-1532: the rows of the viewports
ViewportRows(viewports) ==
  [i \in 1..Len(viewports) |->
     LET v == viewports[i]
         n == NewRow(<<ToString(i - 1), ToString(v.X), ToString(v.Y), ToString(v.Width),
                       ToString(v.Height), ToString(v.MinDepth), ToString(v.MaxDepth)>>)
     IN IF v.Width = 0 \/ v.Height = 0 \/ v.MinDepth = v.MaxDepth THEN setEmptyRow(n) ELSE n]

\* lines 1540-1551: the rows of the scissors
ScissorRows(scissors) ==
  [i \in 1..Len(scissors) |->
     LET s == scissors[i]
         n == NewRow(<<ToString(i - 1), ToString(s.left), ToString(s.top),
                       ToString(s.right - s.left), ToString(s.bottom - s.top)>>)
     IN IF s.right = s.left \/ s.bottom = s.top THEN setEmptyRow(n) ELSE n]

\* lines 1579-1589: the rows of the render targets and of the depth target
RECURSIVE TargetRows(_, _, _, _)
TargetRows(c, targets, i, rows) ==
  IF i >= Len(targets)
  THEN addResourceRow(c, ViewTag(OMDepth, 0, 0, c.state.m_OM.DepthTarget), NULL, rows)
  ELSE TargetRows(c, targets, i + 1,
                  addResourceRow(c, ViewTag(OMTarget, 0, i, targets[i + 1]), NULL, rows))

\* lines 1620-1624: the write mask cell, WriteMask being the set of its bits
WriteMaskText(mask) ==
  (IF 1 \in mask THEN "R" ELSE "_") \o (IF 2 \in mask THEN "G" ELSE "_")
    \o (IF 4 \in mask THEN "B" ELSE "_") \o (IF 8 \in mask THEN "A" ELSE "_")

\* tr("True") and tr("False")
BoolText(b) == IF b THEN "True" ELSE "False"

\* lines 1599-1636: the rows of the blends that are shown; targets[i] is set
\* for the render targets with a resource
RECURSIVE BlendRows(_, _, _, _)
BlendRows(c, blends, i, rows) ==
  IF i >= Len(blends) THEN rows
  ELSE LET blend == blends[i + 1]
           rts == c.state.m_OM.RenderTargets
           target == i < Len(rts) /\ rts[i + 1].Resource # NoResource
           filledSlot == blend.Enabled \/ target
           usedSlot == target
           n0 == NewRow(<<ToString(i), BoolText(blend.Enabled), BoolText(blend.LogicEnabled),
                          blend.m_Blend.Source, blend.m_Blend.Destination,
                          blend.m_Blend.Operation, blend.m_AlphaBlend.Source,
                          blend.m_AlphaBlend.Destination, blend.m_AlphaBlend.Operation,
                          blend.Logic, WriteMaskText(blend.WriteMask)>>)
           n1 == IF ~filledSlot THEN setEmptyRow(n0) ELSE n0
           n2 == IF ~usedSlot THEN setInactiveRow(n1) ELSE n1
       IN BlendRows(c, blends, i + 1,
                    IF showNode(c, usedSlot, filledSlot) THEN Append(rows, n2) ELSE rows)

\* QString::arg(value, 2, 16, QLatin1Char('0')).toUpper() of a byte
HexByte(n) ==
  LET digit(d) == <<"0", "1", "2", "3", "4", "5", "6", "7", "8", "9",
                    "A", "B", "C", "D", "E", "F">>[d + 1]
  IN digit((n \div 16) % 16) \o digit(n % 16)

\* QString::arg(value, 2) of a blend factor that is a whole number below 10:
\* the number in a field two wide
FieldOfTwo(n) == " " \o ToString(n)

\* Formatter::Format of a float that is a whole number
FormatFloat(n) == ToString(n) \o ".0"

\* lines 1665-1673: the row of one stencil face
StencilRow(face, f) == NewRow(<<face, f.Func, f.FailOp, f.DepthFailOp, f.PassOp>>)

\* a flowchart that takes every event with a draw for a graphics draw
MutStagesEnabledNoDispatch(c) ==
  IF c.draw = NULL THEN AllStages
  ELSE <<TRUE, TRUE, c.state.m_HS.Object # NoResource, c.state.m_DS.Object # NoResource,
         c.state.m_GS.Object # NoResource, TRUE, c.state.m_PS.Object # NoResource, TRUE,
         FALSE>>

\* lines 1677-1691: the stages the flowchart enables
StagesEnabled(c) ==
  IF c.draw = NULL THEN AllStages
  ELSE IF "Dispatch" \in c.draw.flags
       THEN <<FALSE, FALSE, FALSE, FALSE, FALSE, FALSE, FALSE, FALSE, TRUE>>
       ELSE <<TRUE, TRUE, c.state.m_HS.Object # NoResource,
              c.state.m_DS.Object # NoResource, c.state.m_GS.Object # NoResource, TRUE,
              c.state.m_PS.Object # NoResource, TRUE, FALSE>>

\* setState(): the widgets and m_VBNodes afterwards
setState(c, ui) ==
  IF ~c.LogLoaded THEN [ui |-> clearState(ui), m_VBNodes |-> <<>>]
  ELSE
    LET state == c.state
        topo == IF c.draw # NULL THEN c.draw.topology ELSE "Unknown"
        numCPs == PatchList_Count(topo)
        ia == InputLayouts(c, state.m_IA.layouts, 0, <<>>, {}, <<>>)
        streamoutSet == FALSE
        rs == state.m_RS.m_State
        om == state.m_OM.m_State
        bs == state.m_OM.m_BlendState
        \* lines 1448-1459: every stage goes through setShaderState
        stages == [vs |-> state.m_VS, gs |-> state.m_GS, hs |-> state.m_HS,
                   ds |-> state.m_DS, ps |-> state.m_PS, cs |-> state.m_CS]
        Widgets(shaders, vbs) ==
          [ui EXCEPT
             !.iaLayouts = ia.rows,
             !.topology = IF numCPs > 0
                          THEN "PatchList (" \o ToString(numCPs) \o " Control Points)"
                          ELSE topo,
             !.topologyDiagram = TopologyDiagram(topo),
             !.iaBuffers = IndexBufferRows(c) \o vbs,
             !.vs = shaders.vs,
             !.gs = shaders.gs,
             !.hs = shaders.hs,
             !.ds = shaders.ds,
             !.ps = shaders.ps,
             !.cs = shaders.cs,
             !.gsStreamOut = StreamOutRows(c, state.m_SO.Outputs, 0, <<>>),
             !.gsStreamOutVisible = streamoutSet,
             !.soGroupVisible = streamoutSet,
             !.viewports = ViewportRows(state.m_RS.Viewports),
             !.scissors = ScissorRows(state.m_RS.Scissors),
             !.fillMode = rs.fillMode,
             !.cullMode = rs.cullMode,
             !.frontCCW = Pixmap(rs.FrontCCW),
             !.lineAA = Pixmap(rs.AntialiasedLineEnable),
             !.multisample = Pixmap(rs.MultisampleEnable),
             !.depthClip = Pixmap(rs.DepthClip),
             !.depthBias = FormatFloat(rs.DepthBias),
             !.depthBiasClamp = FormatFloat(rs.DepthBiasClamp),
             !.slopeScaledBias = FormatFloat(rs.SlopeScaledDepthBias),
             !.forcedSampleCount = ToString(rs.ForcedSampleCount),
             !.conservativeRaster = Pixmap(rs.ConservativeRasterization),
             !.targetOutputs = TargetRows(c, state.m_OM.RenderTargets, 0, <<>>),
             !.blends = BlendRows(c, bs.Blends, 0, <<>>),
             !.alphaToCoverage = Pixmap(bs.AlphaToCoverage),
             !.independentBlend = Pixmap(bs.IndependentBlend),
             !.blendFactor = FieldOfTwo(bs.BlendFactor[1]) \o ", "
                               \o FieldOfTwo(bs.BlendFactor[2]) \o ", "
                               \o FieldOfTwo(bs.BlendFactor[3]) \o ", "
                               \o FieldOfTwo(bs.BlendFactor[4]),
             !.depthEnabled = Pixmap(om.DepthEnable),
             !.depthFunc = om.DepthFunc,
             !.depthWrite = Pixmap(om.DepthWrites),
             !.stencilEnabled = Pixmap(om.StencilEnable),
             !.stencilReadMask = HexByte(om.StencilReadMask),
             !.stencilWriteMask = HexByte(om.StencilWriteMask),
             !.stencilRef = HexByte(om.StencilRef),
             !.stencils = <<StencilRow("Front", om.m_FrontFace),
                            StencilRow("Back", om.m_BackFace)>>,
             !.pipeFlow = StagesEnabled(c)]
        Result(vbs) ==
          [m_VBNodes |-> vbs,
           ui |-> Widgets([s \in DOMAIN stages |-> setShaderState(c, stages[s])], vbs)]
    IN Result(VertexBufferRows(c, state.m_IA.vbuffers, ia.usedVBuffers, 0, <<>>))

-----------------------------------------------------------------------------
(* The pipeline states and draws the context can hold at an event            *)

\* registers per register space and register spaces of the binding states
MaxRegs == 2
MaxSpaces == 3
\* render target slots of the output merger states
MaxTargets == 2

\* a view of the texture, of the buffer, and a slot without a view
TextureView == View(0, TextureID, FormatUNorm)
BufferView == View(1, BufferID, FormatTypeless)
EmptyView == View(2, NoResource, FormatTypeless)

\* D3D12Pipe::Sampler
SamplerAt(filter) ==
  [RootElement |-> 3, Immediate |-> FALSE, TableIndex |-> 0,
   Filter |-> [minify |-> filter, func |-> "Normal"],
   AddressU |-> "Wrap", AddressV |-> "Wrap", AddressW |-> "Clamp",
   UseBorder |-> FALSE, BorderColor |-> "0, 0, 0, 0", MaxAniso |-> 1,
   Comparison |-> "Always", MinLOD |-> "0", MaxLOD |-> "FLT_MAX", MipLODBias |-> "0"]

\* D3D12Pipe::CBuffer
CBufferAt(buffer, bytes) ==
  [RootElement |-> 4, Immediate |-> FALSE, TableIndex |-> 0, RootValues |-> 0,
   Buffer |-> buffer, Offset |-> 0, ByteSize |-> bytes]

\* D3D12Pipe::RegisterSpace with every register up to MaxRegs: the first of
\* each kind is bound, the others are empty
BoundSpace ==
  [SRVs |-> [r \in 1..MaxRegs |-> IF r = 1 THEN TextureView ELSE EmptyView],
   UAVs |-> [r \in 1..MaxRegs |-> IF r = 1 THEN BufferView ELSE EmptyView],
   Samplers |-> [r \in 1..MaxRegs |-> SamplerAt(IF r = 1 THEN "Linear" ELSE "NoFilter")],
   ConstantBuffers |-> [r \in 1..MaxRegs |->
                           IF r = 1 THEN CBufferAt(BufferID, 64) ELSE CBufferAt(NoResource, 0)]]

\* a register space that holds one bound shader resource view and no more
ViewSpace ==
  [SRVs |-> <<TextureView>>, UAVs |-> <<BufferView>>, Samplers |-> <<>>,
   ConstantBuffers |-> <<>>]

\* ShaderBindpointMapping entries: BindpointMap
BindpointMaps ==
  [bindset : 0..(MaxSpaces - 1), bind : 0..(MaxRegs - 1),
   arraySize : {1, 2, UINT_MAX}, used : BOOLEAN]

\* ShaderReflection of a shader with the given resources; the constant blocks
\* have the names and the kinds of the resources have no bearing on them
Reflection(res) ==
  [DebugInfo |-> [entryFunc |-> "main", entryFile |-> 0,
                  files |-> <<[first |-> [path |-> "shaders", fileName |-> "shader.hlsl"]]>>],
   InputSig |-> <<[semanticName |-> <<"p", "o", "s">>, semanticIndex |-> 0]>>,
   ReadOnlyResources |-> res,
   ReadWriteResources |-> res,
   ConstantBlocks |-> [i \in 1..Len(res) |->
                         [name |-> res[i].name, variables |-> 1, byteSize |-> 16]]]

\* ShaderResource
ShaderResource(name, isSampler) ==
  [name |-> name, IsSampler |-> isSampler, IsTexture |-> TRUE,
   variableType |-> [name |-> "float4", members |-> 0]]

\* D3D12Pipe::Shader
Shader(stage, object, details, binds, spaces) ==
  [stage |-> stage, Object |-> object, ShaderDetails |-> details,
   BindpointMapping |-> [ReadOnlyResources |-> binds, ReadWriteResources |-> binds,
                         ConstantBlocks |-> binds],
   Spaces |-> spaces]

\* a stage with no shader bound
Unbound(stage) == Shader(stage, NoResource, NULL, <<>>, <<>>)

\* a stage with a shader bound that has no reflection data and no bindings
Bound(stage) == Shader(stage, 9, NULL, <<>>, <<>>)

\* D3D12Pipe::StencilFace
StencilFace == [Func |-> "Always", FailOp |-> "Keep", DepthFailOp |-> "Keep", PassOp |-> "Keep"]

\* D3D12Pipe::Blend
Blend(on) ==
  [Enabled |-> on, LogicEnabled |-> FALSE,
   m_Blend |-> [Source |-> "One", Destination |-> "Zero", Operation |-> "Add"],
   m_AlphaBlend |-> [Source |-> "One", Destination |-> "Zero", Operation |-> "Add"],
   Logic |-> "NoOp", WriteMask |-> {1, 2, 4, 8}]

\* D3D12Pipe::State of a draw with a vertex and a pixel shader, one render
\* target and a depth target
BaseState ==
  [name |-> "Pipeline State 7", customName |-> FALSE,
   Resources |-> <<[id |-> TextureID, state |-> "RENDER_TARGET"]>>,
   m_IA |-> [layouts |-> <<[SemanticName |-> <<"P", "o", "s">>, SemanticIndex |-> 0,
                            Format |-> [strname |-> "R32G32B32_FLOAT", compByteWidth |-> 4,
                                        compCount |-> 3],
                            InputSlot |-> 0, ByteOffset |-> 0, PerInstance |-> FALSE,
                            InstanceDataStepRate |-> 0]>>,
             ibuffer |-> [Buffer |-> BufferID, Offset |-> 0],
             vbuffers |-> <<[Buffer |-> BufferID, Stride |-> 12, Offset |-> 0]>>],
   m_VS |-> Shader("Vertex", 8, Reflection(<<>>), <<>>, <<>>),
   m_HS |-> Unbound("Hull"), m_DS |-> Unbound("Domain"), m_GS |-> Unbound("Geometry"),
   m_PS |-> Bound("Pixel"), m_CS |-> Unbound("Compute"),
   m_SO |-> [Outputs |-> <<>>],
   m_RS |-> [Viewports |-> <<[X |-> 0, Y |-> 0, Width |-> 4, Height |-> 4,
                              MinDepth |-> 0, MaxDepth |-> 1]>>,
             Scissors |-> <<[left |-> 0, top |-> 0, right |-> 4, bottom |-> 4]>>,
             m_State |-> [fillMode |-> "Solid", cullMode |-> "Back", FrontCCW |-> FALSE,
                          AntialiasedLineEnable |-> FALSE, MultisampleEnable |-> FALSE,
                          DepthClip |-> TRUE, DepthBias |-> 0, DepthBiasClamp |-> 0,
                          SlopeScaledDepthBias |-> 0, ForcedSampleCount |-> 0,
                          ConservativeRasterization |-> FALSE]],
   m_OM |-> [RenderTargets |-> <<TextureView>>, DepthTarget |-> TextureView,
             DepthReadOnly |-> FALSE, StencilReadOnly |-> FALSE,
             m_BlendState |-> [Blends |-> <<Blend(TRUE), Blend(FALSE)>>,
                               AlphaToCoverage |-> FALSE, IndependentBlend |-> FALSE,
                               BlendFactor |-> <<1, 1, 1, 1>>],
             m_State |-> [DepthEnable |-> TRUE, DepthFunc |-> "Less", DepthWrites |-> TRUE,
                          StencilEnable |-> FALSE, StencilReadMask |-> 255,
                          StencilWriteMask |-> 255, StencilRef |-> 0,
                          m_FrontFace |-> StencilFace, m_BackFace |-> StencilFace]]]

\* states that differ in the bindings of the pixel shader: two bindpoints
\* over registers bound in every space, the second an unbounded array at
\* register 0 that the shader uses
BindingStates ==
  { [BaseState EXCEPT
       !.m_PS = Shader("Pixel", 9,
                       Reflection(<<ShaderResource("first", k1), ShaderResource("second", k2)>>),
                       <<b1, [bindset |-> s2, bind |-> 0, arraySize |-> UINT_MAX,
                              used |-> TRUE]>>,
                       [s \in 1..MaxSpaces |-> BoundSpace])] :
      b1 \in BindpointMaps, s2 \in 0..(MaxSpaces - 1), k1 \in BOOLEAN, k2 \in BOOLEAN }

\* the views a target slot can hold
TargetViews == {TextureView, EmptyView}

\* the render target lists of up to MaxTargets slots
TargetLists == UNION { [1..n -> TargetViews] : n \in 0..MaxTargets }

\* states that differ in the targets of the output merger; the pixel shader
\* has either no bindings or one view in each of the register spaces 0 to OMDepth,
\* none of them used by the shader
TargetStates ==
  { [BaseState EXCEPT
       !.m_OM.RenderTargets = rts, !.m_OM.DepthTarget = dt,
       !.m_OM.DepthReadOnly = dro, !.m_OM.StencilReadOnly = sro,
       !.m_PS = IF views THEN Shader("Pixel", 9, NULL, <<>>, [s \in 1..(OMDepth + 1) |-> ViewSpace])
                ELSE Bound("Pixel")] :
      rts \in TargetLists, dt \in TargetViews, dro \in BOOLEAN, sro \in BOOLEAN,
      views \in BOOLEAN }

\* states that differ in the shaders bound to the optional stages
ShaderStates ==
  { [BaseState EXCEPT
       !.m_HS = IF hs THEN Bound("Hull") ELSE Unbound("Hull"),
       !.m_DS = IF ds THEN Bound("Domain") ELSE Unbound("Domain"),
       !.m_GS = IF gs THEN Bound("Geometry") ELSE Unbound("Geometry"),
       !.m_PS = IF ps THEN Bound("Pixel") ELSE Unbound("Pixel"),
       !.m_CS = IF cs THEN Bound("Compute") ELSE Unbound("Compute")] :
      hs \in BOOLEAN, ds \in BOOLEAN, gs \in BOOLEAN, ps \in BOOLEAN, cs \in BOOLEAN }

\* states that differ in the input assembler and the stream-out targets
BufferStates ==
  { [BaseState EXCEPT
       !.m_SO.Outputs = so,
       !.m_IA.ibuffer.Buffer = ib,
       !.m_IA.vbuffers = vbs,
       !.m_IA.layouts[1].ByteOffset = offs] :
      so \in {<<>>, <<[Buffer |-> BufferID, Offset |-> 0]>>,
              <<[Buffer |-> NoResource, Offset |-> 0], [Buffer |-> BufferID, Offset |-> 8]>>},
      ib \in {NoResource, BufferID},
      vbs \in {<<>>, <<[Buffer |-> NoResource, Stride |-> 0, Offset |-> 0],
                       [Buffer |-> BufferID, Stride |-> 12, Offset |-> 0]>>},
      offs \in {0, UINT_MAX} }

\* m_Ctx.CurD3D12PipelineState() at some event of some capture
PipeStates == BindingStates \cup TargetStates \cup ShaderStates \cup BufferStates

\* DrawcallDescription of the current event, as far as the viewer reads it
Drawcall(flags, topology) ==
  [flags |-> flags, topology |-> topology, indexOffset |-> 0, indexByteWidth |-> 2]

\* m_Ctx.CurDrawcall(): NULL at an event that is no drawcall
CurDrawcalls ==
  {NULL, Drawcall({"Drawcall"}, "TriangleList"),
   Drawcall({"Drawcall", "UseIBuffer"}, "PatchList_3CPs"),
   Drawcall({"Dispatch"}, "Unknown")}

-----------------------------------------------------------------------------
(* The state after the constructor, which ends with OnLogfileClosed; the
   constructor of the pipeline viewer ends with clearState *)

Init ==
  /\ logLoaded = FALSE
  /\ draws = <<>>
  /\ curEvent = 0
  /\ events = <<>>
  /\ currentItem = 0
  /\ selectedItem = 0
  /\ enabled = FALSE
  /\ m_Bookmarks = <<>>
  /\ m_BookmarkButtons = <<>>
  /\ bookmarkStrip = FALSE
  /\ jumpStrip = FALSE
  /\ findStrip = FALSE
  /\ findText = <<>>
  /\ findStyle = ""
  /\ findTimer = FALSE
  /\ m_Times = <<>>
  \* line 91: the constructor's UpdateDurationColumn takes the configured
  \* unit; the other units are reached by changing the setting
  /\ EventBrowser_TimeUnit = "Microseconds"
  /\ m_TimeUnit = EventBrowser_TimeUnit
  /\ replayQueue = 0
  /\ replayPc = "idle"
  /\ fetched = <<>>
  /\ guiQueue = 0
  /\ dispatched = 0
  /\ stored = 0
  /\ showDisabled = FALSE
  /\ showEmpty = FALSE
  /\ pipeState = BaseState
  /\ curDraw = NULL
  /\ pipeUi = clearState(SetupUi)
  /\ m_VBNodes = <<>>
  /\ crashed = FALSE
  /\ lastCall = Call("EventBrowser", -1, TRUE)

-----------------------------------------------------------------------------
(* Building the tree: captures are loaded and closed *)

NextBuild ==
  \/ \E ds \in Captures : OnLogfileLoaded(ds)
  \/ OnLogfileClosed

SpecBuild == Init /\ [][NextBuild]_vars

-----------------------------------------------------------------------------
(* Claims about the tree that OnLogfileLoaded builds *)

\* the items below the frame root
Below(nodes) == 2..Len(nodes)

\* the draw call that item n (n > 2) was built from
DrawOf(n) == PreOrder(draws)[n - 2]

RECURSIVE Mirrors(_, _, _, _)
\* the items cs, children of p, copy the draw calls ds with their nesting
Mirrors(nodes, p, cs, ds) ==
  /\ Len(cs) = Len(ds)
  /\ \A i \in 1..Len(ds) :
       /\ cs[i] \in 1..Len(nodes)
       /\ nodes[cs[i]].parent = p
       /\ nodes[cs[i]].name = ds[i].name
       /\ nodes[cs[i]].tag.EID = ds[i].eventID
       /\ Mirrors(nodes, cs[i], nodes[cs[i]].children, ds[i].children)

\* C1: with a capture loaded, the first child of the frame root is a
\* childless 'Frame Start' item with EID 0 and the children after it copy
\* the draw-call list: one item per draw call, in the same order, with the
\* same nesting, each with tag.EID equal to its draw call's eventID; the tree
\* holds no other item.
C1_TreeCopiesDrawcalls ==
  logLoaded =>
    /\ Len(events) = CountDraws(draws) + 2
    /\ events[1].parent = 0
    /\ Len(events[1].children) >= 1
    /\ LET fs == events[1].children[1]
       IN /\ events[fs].name = NameFrameStart
          /\ events[fs].tag.EID = 0
          /\ events[fs].children = <<>>
          /\ events[fs].parent = 1
    /\ Mirrors(events, 1, Tail(events[1].children), draws)

\* a capture with a marker region that holds a draw call, and a draw call
\* after the region, is loaded
C1_Witness ==
  /\ logLoaded
  /\ Len(draws) = 2
  /\ Len(draws[1].children) = 1
  /\ lastCall.op = "OnLogfileLoaded"

\* the following sibling of item n, 0 if it is the last child
NextSibling(nodes, n) ==
  LET cs == nodes[nodes[n].parent].children
      i  == CHOOSE k \in 1..Len(cs) : cs[k] = n
  IN IF i < Len(cs) THEN cs[i + 1] ELSE 0

\* C2: every item built from a draw call has tag.EID <= tag.lastEID; an item
\* with children has the lastEID of its last child; a childless item has its
\* own event ID as lastEID, except a childless SetMarker with a following
\* sibling, whose lastEID is that sibling's event ID.
C2_LastEID ==
  logLoaded =>
    \A n \in 3..Len(events) :
      LET tag == events[n].tag
          cs  == events[n].children
          nx  == NextSibling(events, n)
      IN /\ tag.EID <= tag.lastEID
         /\ cs # <<>> => tag.lastEID = events[cs[Len(cs)]].tag.lastEID
         /\ cs = <<>> =>
              IF "SetMarker" \in DrawOf(n).flags /\ nx # 0
              THEN tag.lastEID = events[nx].tag.EID
              ELSE tag.lastEID = tag.EID

\* a loaded capture holds a marker region whose first child is a SetMarker
\* followed by a sibling two events later
C2_Witness ==
  /\ logLoaded
  /\ \E n \in 3..Len(events) :
       /\ events[n].children = <<>>
       /\ "SetMarker" \in DrawOf(n).flags
       /\ events[n].parent # 1
       /\ NextSibling(events, n) # 0
       /\ events[n].tag.lastEID = events[n].tag.EID + 2

\* the largest event ID of a draw-call list, 0 for the empty list
MaxEventID(ds) ==
  LET ids == { PreOrder(ds)[i].eventID : i \in 1..Len(PreOrder(ds)) }
  IN IF ids = {} THEN 0 ELSE CHOOSE m \in ids : \A k \in ids : k <= m

\* C3: with a capture loaded the frame root's tag is (EID 0, lastEID L), L the
\* largest event ID of the draw-call list (0 for the empty list), and right
\* after OnLogfileLoaded the context's current event is L.
C3_FrameRootSpansCapture ==
  logLoaded =>
    /\ events[1].tag.EID = 0
    /\ events[1].tag.lastEID = MaxEventID(draws)
    /\ lastCall.op = "OnLogfileLoaded" => curEvent = MaxEventID(draws)

\* a capture whose largest event ID belongs to a nested draw call was loaded
C3_Witness ==
  /\ logLoaded
  /\ lastCall.op = "OnLogfileLoaded"
  /\ Len(draws) = 2
  /\ draws[2].children # <<>>
  /\ curEvent > draws[2].eventID
  /\ events[1].tag.lastEID = curEvent

-----------------------------------------------------------------------------
(* Selecting events *)

\* the event IDs a user or another viewer can ask for
EventIDs == 0..(MaxEventID(draws) + 1)

on_gotoEID_clicked ==
  /\ ~crashed
  /\ enabled
  /\ jumpStrip' = TRUE
  /\ findStrip' = FALSE
  /\ UNCHANGED <<treeVars, bookmarkVars, findText, findStyle, findTimer, crashed, timeVars, pipeVars>>
  /\ lastCall' = Call("on_gotoEID_clicked", -1, TRUE)

on_find_clicked ==
  /\ ~crashed
  /\ enabled
  /\ jumpStrip' = FALSE
  /\ findStrip' = TRUE
  /\ UNCHANGED <<treeVars, bookmarkVars, findText, findStyle, findTimer, crashed, timeVars, pipeVars>>
  /\ lastCall' = Call("on_find_clicked", -1, TRUE)

\* closeFind or closeJump is clicked
on_HideFindJump ==
  /\ ~crashed
  /\ jumpStrip \/ findStrip
  /\ jumpStrip' = FALSE
  /\ findStrip' = FALSE
  /\ events' = ClearFindIcons(events)
  /\ findStyle' = ""
  /\ UNCHANGED <<logLoaded, draws, curEvent, currentItem, selectedItem, enabled,
                 bookmarkVars, findText, findTimer, crashed, timeVars, pipeVars>>
  /\ lastCall' = Call("on_HideFindJump", -1, TRUE)

\* return is pressed in the jump box, which holds the number eid
on_jumpToEID_returnPressed(eid) ==
  /\ ~crashed
  /\ jumpStrip
  /\ LET r == SelectEvent(World, eid)
     IN /\ SetWorld(r.w)
        /\ lastCall' = Call("SelectEvent", eid, r.ret)
  /\ UNCHANGED <<logLoaded, draws, enabled, m_Bookmarks, bookmarkStrip, findVars,
                 crashed, timeVars, pipeVars>>

\* another viewer makes eventID the context's event
OnEventChanged(eventID) ==
  /\ ~crashed
  /\ logLoaded
  /\ LET r == SelectEvent([World EXCEPT !.curEvent = eventID], eventID)
     IN /\ SetWorld(highlightBookmarks(r.w))
        /\ lastCall' = Call("OnEventChanged", eventID, r.ret)
  /\ UNCHANGED <<logLoaded, draws, enabled, m_Bookmarks, bookmarkStrip, findVars,
                 crashed, timeVars, pipeVars>>

\* the user clicks item n of the tree
UserSelectsItem(n) ==
  /\ ~crashed
  /\ n \in 1..Len(events)
  /\ SetWorld(setSelectedItem(setCurrentItem(World, n), n))
  /\ UNCHANGED <<logLoaded, draws, enabled, m_Bookmarks, bookmarkStrip, findVars,
                 crashed, timeVars, pipeVars>>
  /\ lastCall' = Call("UserSelectsItem", n, TRUE)

NextSelect ==
  \/ \E ds \in NavCaptures : OnLogfileLoaded(ds)
  \/ OnLogfileClosed
  \/ on_gotoEID_clicked
  \/ on_HideFindJump
  \/ \E eid \in EventIDs : on_jumpToEID_returnPressed(eid)
  \/ \E eid \in EventIDs : OnEventChanged(eid)
  \/ \E n \in 1..Len(events) : UserSelectsItem(n)

SpecSelect == Init /\ [][NextSelect]_vars

-----------------------------------------------------------------------------
(* Finding events by name *)

\* the texts typed into the find box: one that only 'Pass' contains, one that
\* only 'Frame Start' contains, one that every name contains, one that none
\* contains
FindTexts == { <<>>, <<"P","A">>, <<"s","t">>, <<"a">>, <<"x">> }

\* the user edits the find box to text
on_findEvent_textEdited(text) ==
  /\ ~crashed
  /\ findStrip
  /\ text # findText
  /\ findText' = text
  /\ IF text = <<>>
     THEN /\ findTimer' = FALSE
          /\ findStyle' = ""
          /\ events' = ClearFindIcons(events)
     ELSE /\ findTimer' = TRUE
          /\ UNCHANGED <<findStyle, events>>
  /\ UNCHANGED <<logLoaded, draws, curEvent, currentItem, selectedItem, enabled,
                 bookmarkVars, jumpStrip, findStrip, crashed, timeVars, pipeVars>>
  /\ lastCall' = Call("on_findEvent_textEdited", Len(text), TRUE)

\* m_FindHighlight times out
findHighlight_timeoutFires ==
  /\ ~crashed
  /\ findTimer
  /\ findTimer' = FALSE
  /\ LET r == findHighlight_timeout(events, findText)
     IN /\ events' = r.nodes
        /\ findStyle' = r.style
        /\ crashed' = r.crash
  /\ UNCHANGED <<logLoaded, draws, curEvent, currentItem, selectedItem, enabled,
                 bookmarkVars, jumpStrip, findStrip, findText, timeVars, pipeVars>>
  /\ lastCall' = Call("findHighlight_timeout", -1, TRUE)

\* lines 420-427 and 434-441: stop the timer, Find, then highlight at once
FindAndHighlight(forward, op) ==
  /\ findTimer' = FALSE
  /\ LET f == IF findText # <<>> THEN Find(World, forward)
              ELSE [w |-> World, style |-> findStyle]
         r == findHighlight_timeout(f.w.events, findText)
     IN /\ SetWorld([f.w EXCEPT !.events = r.nodes])
        /\ findStyle' = r.style
        /\ crashed' = r.crash
  /\ UNCHANGED <<logLoaded, draws, enabled, m_Bookmarks, bookmarkStrip,
                 jumpStrip, findStrip, findText, timeVars, pipeVars>>
  /\ lastCall' = Call(op, IF forward THEN 1 ELSE 0, TRUE)

on_findEvent_returnPressed ==
  /\ ~crashed
  /\ findStrip
  /\ FindAndHighlight(TRUE, "on_findEvent_returnPressed")

\* F3 is pressed in the find box, with or without shift
on_findEvent_keyPress(shift) ==
  /\ ~crashed
  /\ findStrip
  /\ FindAndHighlight(~shift, "on_findEvent_keyPress")

\* on_findNext_clicked and on_findPrev_clicked: Find(forward)
FindClicked(forward) ==
  /\ ~crashed
  /\ findStrip
  /\ LET f == Find(World, forward)
     IN /\ SetWorld(f.w)
        /\ findStyle' = f.style
        /\ lastCall' = Call("Find", IF forward THEN 1 ELSE 0, f.style # "red")
  /\ UNCHANGED <<logLoaded, draws, enabled, m_Bookmarks, bookmarkStrip,
                 jumpStrip, findStrip, findText, findTimer, crashed, timeVars, pipeVars>>

on_findNext_clicked == FindClicked(TRUE)

on_findPrev_clicked == FindClicked(FALSE)

NextFind ==
  \/ \E ds \in DenseCaptures : OnLogfileLoaded(ds)
  \/ OnLogfileClosed
  \/ on_find_clicked
  \/ on_HideFindJump
  \/ \E text \in FindTexts : on_findEvent_textEdited(text)
  \/ findHighlight_timeoutFires
  \/ on_findEvent_returnPressed
  \/ \E shift \in BOOLEAN : on_findEvent_keyPress(shift)
  \/ on_findNext_clicked
  \/ on_findPrev_clicked
  \/ \E n \in 1..Len(events) : UserSelectsItem(n)

SpecFind == Init /\ [][NextFind]_vars

-----------------------------------------------------------------------------
(* Bookmarking events *)

\* the bookmark button is clicked: toggleBookmark on the current item's event
on_bookmark_clicked ==
  /\ ~crashed
  /\ enabled
  /\ IF currentItem # 0
     THEN LET EID == events[currentItem].tag.lastEID
              r   == toggleBookmark(World, m_Bookmarks, EID)
          IN /\ SetWorld(r.w)
             /\ m_Bookmarks' = r.bookmarks
             /\ bookmarkStrip' = (r.w.buttons # <<>>)
             /\ lastCall' = Call("toggleBookmark", EID, TRUE)
     ELSE /\ UNCHANGED <<events, currentItem, selectedItem, curEvent, bookmarkVars>>
          /\ lastCall' = Call("on_bookmark_clicked", -1, FALSE)
  /\ UNCHANGED <<logLoaded, draws, enabled, findVars, crashed, timeVars, pipeVars>>

\* lines 749-753: the i-th bookmark button of the strip is clicked
BookmarkButtonClicked(i) ==
  /\ ~crashed
  /\ bookmarkStrip
  /\ i \in 1..Len(m_BookmarkButtons)
  /\ LET EID == m_BookmarkButtons[i].eid
         w0  == [World EXCEPT !.buttons[i].checked = TRUE]
         r   == SelectEvent(w0, EID)
     IN /\ SetWorld(highlightBookmarks(r.w))
        /\ lastCall' = Call("BookmarkButtonClicked", EID, r.ret)
  /\ UNCHANGED <<logLoaded, draws, enabled, m_Bookmarks, bookmarkStrip, findVars,
                 crashed, timeVars, pipeVars>>

\* the position in keys[] of the digit key, which is the i of its shortcut
ShortcutIndex(key) == (CHOOSE i \in 1..Len(ShortcutKeys) : ShortcutKeys[i] = key) - 1

\* lines 116-120: Ctrl+digit activates its shortcut: jumpToBookmark(i)
ShortcutActivated(key) ==
  /\ ~crashed
  /\ LET idx == ShortcutIndex(key)
     IN /\ SetWorld(jumpToBookmark(World, m_Bookmarks, idx))
        /\ lastCall' = [Call("jumpToBookmark", idx, TRUE) EXCEPT !.key = key]
  /\ UNCHANGED <<logLoaded, draws, enabled, m_Bookmarks, bookmarkStrip, findVars,
                 crashed, timeVars, pipeVars>>

NextBookmark ==
  \/ \E ds \in DenseCaptures : OnLogfileLoaded(ds)
  \/ OnLogfileClosed
  \/ \E n \in 1..Len(events) : UserSelectsItem(n)
  \/ on_bookmark_clicked
  \/ \E i \in 1..Len(m_BookmarkButtons) : BookmarkButtonClicked(i)
  \/ \E key \in 0..9 : ShortcutActivated(key)

SpecBookmark == Init /\ [][NextBookmark]_vars

-----------------------------------------------------------------------------
(* Claims about SelectEvent *)

RECURSIVE Descendants(_, _)
\* the items cs and all items below them, in tree order
Descendants(nodes, cs) ==
  IF cs = <<>> THEN <<>>
  ELSE <<Head(cs)>> \o Descendants(nodes, nodes[Head(cs)].children)
       \o Descendants(nodes, Tail(cs))

\* the childless items below the frame root whose lastEID is e, as positions
\* in tree order
ExactLeaves(nodes, e) ==
  LET order == Descendants(nodes, nodes[1].children)
  IN { i \in 1..Len(order) :
         /\ nodes[order[i]].children = <<>>
         /\ nodes[order[i]].tag.lastEID = e }

\* C4: after SelectEvent(eventID) with a capture loaded and some childless
\* item whose lastEID is eventID, the last such item in tree order is the
\* current and the selected item.
C4_SelectsLastExactLeaf ==
  (lastCall.op \in {"SelectEvent", "OnEventChanged"} /\ logLoaded) =>
    LET order == Descendants(events, events[1].children)
        hits  == ExactLeaves(events, lastCall.arg)
    IN hits # {} =>
         LET last == order[CHOOSE i \in hits : \A k \in hits : k <= i]
         IN /\ currentItem = last
            /\ selectedItem = last
            /\ events[last].tag.current

\* SelectEvent was called with the event ID that a SetMarker inherits from the
\* draw call after it, and that draw call is current
C4_Witness ==
  /\ logLoaded
  /\ lastCall.op = "SelectEvent"
  /\ currentItem > 2
  /\ "Drawcall" \in DrawOf(currentItem).flags
  /\ \E n \in 3..Len(events) :
       /\ "SetMarker" \in DrawOf(n).flags
       /\ NextSibling(events, n) = currentItem
       /\ events[n].tag.lastEID = lastCall.arg
       /\ events[currentItem].tag.lastEID = lastCall.arg

\* C5: SelectEvent(eventID) returns false and leaves the current item alone
\* when no capture is loaded or no item below the frame root has
\* lastEID >= eventID; otherwise it returns true and the current item is one
\* with the least lastEID >= eventID among the items below the frame root.
C5_SelectEventResult ==
  [][lastCall'.op = "SelectEvent" =>
       LET e     == lastCall'.arg
           cands == { n \in Below(events) : events[n].tag.lastEID >= e }
       IN IF ~logLoaded \/ cands = {}
          THEN /\ ~lastCall'.ret
               /\ currentItem' = currentItem
               /\ selectedItem' = selectedItem
          ELSE /\ lastCall'.ret
               /\ currentItem' \in cands
               /\ \A n \in cands :
                    events[currentItem'].tag.lastEID <= events[n].tag.lastEID
    ]_vars

\* SelectEvent was called with an event ID that no item ends at, and selected
\* an item that ends later, while another item ends later still
C5_Witness ==
  /\ logLoaded
  /\ lastCall.op = "SelectEvent"
  /\ lastCall.ret
  /\ currentItem # 0
  /\ events[currentItem].tag.lastEID > lastCall.arg
  /\ \E n \in Below(events) : events[n].tag.lastEID > events[currentItem].tag.lastEID

\* SelectEvent failed with a capture loaded and an item current
C5_WitnessNone ==
  /\ logLoaded
  /\ lastCall.op = "SelectEvent"
  /\ ~lastCall.ret
  /\ currentItem # 0

\* SelectEvent failed with no capture loaded
C5_WitnessClosed ==
  /\ ~logLoaded
  /\ lastCall.op = "SelectEvent"
  /\ ~lastCall.ret

-----------------------------------------------------------------------------
(* Claims about Find *)

\* the items below the frame root whose name contains the find text
FindMatches == { n \in Below(events) : Contains(events[n].name, findText) }

\* Find(forward) ran with a capture loaded and a find text
AfterFind == lastCall.op = "Find" /\ logLoaded /\ findText # <<>>

\* C6 as claimed: after a Find that does not turn the find box red, the
\* selected item's name contains the find text.
C6_SelectedNameContainsText ==
  (AfterFind /\ findStyle # "red") =>
    /\ selectedItem # 0
    /\ Contains(events[selectedItem].name, findText)

\* C6 as amended: after a Find that does not turn the find box red, the
\* selected item is the last childless item, in tree order, whose lastEID is
\* the lastEID of an item whose name contains the find text.
C6_SelectedEndsAtMatch ==
  (AfterFind /\ findStyle # "red") =>
    /\ selectedItem \in Below(events)
    /\ selectedItem = currentItem
    /\ \E n \in FindMatches :
         events[n].tag.lastEID = events[selectedItem].tag.lastEID
    /\ LET order == Descendants(events, events[1].children)
           hits  == ExactLeaves(events, events[selectedItem].tag.lastEID)
       IN /\ hits # {}
          /\ selectedItem = order[CHOOSE i \in hits : \A k \in hits : k <= i]

\* Find succeeded on a text that only the marker region's name contains and
\* selected the draw call inside the region
C6_Witness ==
  /\ AfterFind
  /\ findStyle # "red"
  /\ selectedItem > 2
  /\ ~Contains(events[selectedItem].name, findText)
  /\ events[selectedItem].parent > 2
  /\ Contains(events[events[selectedItem].parent].name, findText)

\* C7 as claimed: after Find the find box is red if and only if no item below
\* the frame root has a name containing the find text.
C7_RedIffNoMatch ==
  AfterFind => (findStyle = "red" <=> FindMatches = {})

-----------------------------------------------------------------------------
(* Claims about bookmarks *)

Range(list) == { list[i] : i \in 1..Len(list) }

Without(list, x) == LET Keep(y) == y # x IN SelectSeq(list, Keep)

\* C8: toggleBookmark(EID) appends EID to m_Bookmarks when it is absent and
\* removes it when it is present; at all times m_Bookmarks holds no event ID
\* twice, m_BookmarkButtons is as long as m_Bookmarks and the button at
\* index i carries the event ID m_Bookmarks[i].
C8_BookmarkList ==
  /\ [](/\ \A i, j \in 1..Len(m_Bookmarks) : m_Bookmarks[i] = m_Bookmarks[j] => i = j
        /\ Len(m_BookmarkButtons) = Len(m_Bookmarks)
        /\ \A i \in 1..Len(m_Bookmarks) : m_BookmarkButtons[i].eid = m_Bookmarks[i])
  /\ [][lastCall'.op = "toggleBookmark" =>
          IF lastCall'.arg \in Range(m_Bookmarks)
          THEN m_Bookmarks' = Without(m_Bookmarks, lastCall'.arg)
          ELSE m_Bookmarks' = Append(m_Bookmarks, lastCall'.arg)]_vars

\* a bookmark was removed from a list that keeps the two bookmarks around it
C8_Witness ==
  /\ lastCall.op = "toggleBookmark"
  /\ lastCall.arg \notin Range(m_Bookmarks)
  /\ Len(m_Bookmarks) = 2
  /\ m_Bookmarks[1] < lastCall.arg
  /\ lastCall.arg < m_Bookmarks[2]

\* C9: Ctrl+1 .. Ctrl+9, Ctrl+0 call jumpToBookmark with 0 .. 9;
\* jumpToBookmark(idx) changes nothing when idx < 0, idx >= the number of
\* bookmarks or no capture is loaded, and otherwise makes current and selected
\* the last childless item whose lastEID is the idx-th bookmark in insertion
\* order.
C9_JumpToBookmark ==
  [][lastCall'.op = "jumpToBookmark" =>
       LET idx == lastCall'.arg
       IN /\ idx = (lastCall'.key + 9) % 10
          /\ IF idx < 0 \/ idx >= Len(m_Bookmarks) \/ ~logLoaded
             THEN UNCHANGED <<treeVars, bookmarkVars, findVars, timeVars, crashed>>
             ELSE LET order == Descendants(events, events[1].children)
                      hits  == ExactLeaves(events, m_Bookmarks[idx + 1])
                  IN /\ hits # {}
                     /\ currentItem' = order[CHOOSE i \in hits : \A k \in hits : k <= i]
                     /\ selectedItem' = currentItem'
                     /\ events'[currentItem'].tag.current
                     /\ UNCHANGED <<m_Bookmarks, logLoaded, draws>>
    ]_vars

\* Ctrl+2 jumped to the second of three bookmarks, which was added after a
\* bookmark of a later event
C9_Witness ==
  /\ lastCall.op = "jumpToBookmark"
  /\ lastCall.key = 2
  /\ Len(m_Bookmarks) = 3
  /\ m_Bookmarks[1] > m_Bookmarks[2]
  /\ currentItem # 0
  /\ events[currentItem].tag.lastEID = m_Bookmarks[2]

\* Ctrl+0 was pressed with bookmarks set and changed nothing
C9_WitnessOutOfRange ==
  /\ lastCall.op = "jumpToBookmark"
  /\ lastCall.key = 0
  /\ lastCall.arg = 9
  /\ Len(m_Bookmarks) = 2

-----------------------------------------------------------------------------
(* Timing the draw calls: a counter fetch on the replay thread, marshalled  *)
(* back to the UI thread                                                    *)

\* fetches dispatched in a behaviour
MaxFetches == 2

\* CounterResult::value.d of a draw call, in seconds
Durations == {1, 2}

\* lines 275-280: seconds to the column's unit
UnitScale(unit) ==
  CASE unit = "Milliseconds" -> 1000
    [] unit = "Microseconds" -> 1000000
    [] unit = "Nanoseconds"  -> 1000000000
    [] OTHER                 -> 1

RECURSIVE Pow10(_)
Pow10(k) == IF k = 0 THEN 1 ELSE 10 * Pow10(k - 1)

\* the decimal exponent of x >= 1
RECURSIVE Exp10(_)
Exp10(x) == IF x < 10 THEN 0 ELSE 1 + Exp10(x \div 10)

\* the digits of a fraction of `width` places, without its trailing zeros
RECURSIVE FractionText(_, _)
FractionText(frac, width) ==
  IF frac = 0 THEN ""
  ELSE ToString(frac \div Pow10(width - 1))
         \o FractionText(frac % Pow10(width - 1), width - 1)

\* QString::number(double) of a whole number x >= 0: format 'g' with six
\* significant digits, which turns to an exponent from 1e+06 on
QStringNumber(x) ==
  IF x < 1000000 THEN ToString(x)
  ELSE LET e0   == Exp10(x)
           unit == Pow10(e0 - 5)
           m0   == (x + unit \div 2) \div unit
           m    == IF m0 = 1000000 THEN 100000 ELSE m0
           e    == IF m0 = 1000000 THEN e0 + 1 ELSE e0
           frac == FractionText(m % 100000, 5)
       IN ToString(m \div 100000)
            \o (IF frac = "" THEN "" ELSE "." \o frac)
            \o "e+" \o (IF e < 10 THEN "0" ELSE "") \o ToString(e)

\* lines 268-272: the value of the last result for the event, else -1
RECURSIVE ResultFor(_, _, _, _)
ResultFor(results, eid, i, duration) ==
  IF i > Len(results) THEN duration
  ELSE ResultFor(results, eid, i + 1,
                 IF results[i].eventID = eid THEN results[i].value ELSE duration)

\* lines 274-286 and 300-312: the duration cell and the duration of the tag
SetDuration(nodes, node, duration, unit) ==
  LET secs == duration * UnitScale(unit)
      text == IF duration < 0 THEN "" ELSE QStringNumber(secs)
  IN setTag([nodes EXCEPT ![node].durText = text], node,
            [nodes[node].tag EXCEPT !.duration = duration])

RECURSIVE SetDrawcallTimes(_, _, _, _)
RECURSIVE SetChildTimes(_, _, _, _, _, _)

\* lines 290-298: the loop over the children; nd is read from the tag of
\* `node` itself
SetChildTimes(nodes, node, results, unit, i, duration) ==
  IF i > childCount(nodes, node) THEN [nodes |-> nodes, duration |-> duration]
  ELSE LET n1 == SetDrawcallTimes(nodes, nodes[node].children[i], results, unit)
           nd == n1[node].tag.duration
       IN SetChildTimes(n1, node, results, unit, i + 1,
                        IF nd > 0 THEN duration + nd ELSE duration)

\* SetDrawcallTimes(node, results) under the unit m_TimeUnit
SetDrawcallTimes(nodes, node, results, unit) ==
  IF node = 0 THEN nodes
  ELSE IF childCount(nodes, node) = 0
       THEN SetDuration(nodes, node,
                        ResultFor(results, nodes[node].tag.EID, 1, -1), unit)
       ELSE LET r == SetChildTimes(nodes, node, results, unit, 1, 0)
            IN SetDuration(r.nodes, node, r.duration, unit)

\* the captures of the specification that times the draw calls: draw calls
\* and marker regions, one event apart
TimedCaptures ==
  DrawLists(NavDraws, MaxDepth, { k \in DrawKinds : "SetMarker" \notin k.flags }, {1})

\* what FetchCounters({GPUCounter::EventGPUDuration}) can return for a
\* capture: in event order, a duration for some of its events
CounterResults(ds) ==
  LET po == PreOrder(ds)
      HasValue(r) == r.value # 0
  IN { SelectSeq([i \in 1..Len(po) |-> [eventID |-> po[i].eventID, value |-> f[i]]],
                 HasValue) :
         f \in [1..Len(po) -> Durations \cup {0}] }

Prefixes(list) == { SubSeq(list, 1, k) : k \in 0..Len(list) }

\* What a read of m_Times on the UI thread can yield.  Nothing orders the
\* read with the replay thread's assignment of line 341: while that
\* assignment runs the read yields the old array, the new one or a part of it.
TimesRead ==
  IF replayPc = "assign" THEN {m_Times} \cup Prefixes(fetched) ELSE {m_Times}

\* a read of m_Times during its assignment that follows a stale pointer
TornReadCrashes(op) ==
  /\ replayPc = "assign"
  /\ crashed' = TRUE
  /\ lastCall' = Call(op, -1, FALSE)

\* lines 337-345, on the UI thread: the lambda is queued for the replay thread
on_timeDraws_clicked ==
  /\ ~crashed
  /\ enabled
  /\ dispatched < MaxFetches
  /\ replayQueue' = replayQueue + 1
  /\ dispatched' = dispatched + 1
  /\ lastCall' = Call("on_timeDraws_clicked", -1, TRUE)
  /\ UNCHANGED <<treeVars, bookmarkVars, findVars, pipeVars, m_Times, m_TimeUnit,
                 EventBrowser_TimeUnit, replayPc, fetched, guiQueue, stored, crashed>>

\* lines 339-341, on the replay thread: the lambda is taken from the queue,
\* FetchCounters returns and the assignment to m_Times begins
ReplayFetchCounters(results) ==
  /\ ~crashed
  /\ replayQueue > 0
  /\ replayPc = "idle"
  /\ replayQueue' = replayQueue - 1
  /\ fetched' = results
  /\ replayPc' = "assign"
  /\ lastCall' = [Call("FetchCounters", Len(results), TRUE) EXCEPT !.thread = "replay"]
  /\ UNCHANGED <<treeVars, bookmarkVars, findVars, pipeVars, m_Times, m_TimeUnit,
                 EventBrowser_TimeUnit, guiQueue, dispatched, stored, crashed>>

\* lines 341-343, on the replay thread: the assignment to m_Times ends and
\* GUIInvoke::call queues the callback for the UI thread
ReplayStoresTimes ==
  /\ ~crashed
  /\ replayPc = "assign"
  /\ m_Times' = fetched
  /\ fetched' = <<>>
  /\ replayPc' = "idle"
  /\ guiQueue' = guiQueue + 1
  /\ stored' = stored + 1
  /\ lastCall' = [Call("GUIInvoke::call", -1, TRUE) EXCEPT !.thread = "replay"]
  /\ UNCHANGED <<treeVars, bookmarkVars, findVars, pipeVars, m_TimeUnit, EventBrowser_TimeUnit,
                 replayQueue, dispatched, crashed>>

\* line 343, on the UI thread: the queued callback runs SetDrawcallTimes
GUIInvokeRuns ==
  /\ ~crashed
  /\ guiQueue > 0
  /\ guiQueue' = guiQueue - 1
  /\ \/ /\ \E times \in TimesRead :
             events' = SetDrawcallTimes(events, topLevelItem0(events), times, m_TimeUnit)
        /\ lastCall' = Call("SetDrawcallTimes", -1, topLevelItem0(events) # 0)
        /\ UNCHANGED crashed
     \/ /\ TornReadCrashes("SetDrawcallTimes")
        /\ UNCHANGED events
  /\ UNCHANGED <<logLoaded, draws, curEvent, currentItem, selectedItem, enabled,
                 bookmarkVars, findVars, pipeVars, m_Times, m_TimeUnit, EventBrowser_TimeUnit,
                 replayQueue, replayPc, fetched, dispatched, stored>>

\* lines 1033-1044, on the UI thread: the time unit of the settings is now
\* `unit` and the window is told to update its duration column
UpdateDurationColumn(unit) ==
  /\ ~crashed
  /\ EventBrowser_TimeUnit' = unit
  /\ IF m_TimeUnit = unit
     THEN /\ UNCHANGED <<m_TimeUnit, events, crashed>>
          /\ lastCall' = Call("UpdateDurationColumn", -1, FALSE)
     ELSE /\ m_TimeUnit' = unit
          /\ \/ /\ \E isEmpty \in { t = <<>> : t \in TimesRead } :
                     IF isEmpty
                     THEN /\ UNCHANGED events
                          /\ lastCall' = Call("UpdateDurationColumn", -1, FALSE)
                     ELSE /\ \E times \in TimesRead :
                               events' = SetDrawcallTimes(events, topLevelItem0(events),
                                                          times, unit)
                          /\ lastCall' = Call("UpdateDurationColumn", -1,
                                              topLevelItem0(events) # 0)
                /\ UNCHANGED crashed
             \/ /\ TornReadCrashes("UpdateDurationColumn")
                /\ UNCHANGED events
  /\ UNCHANGED <<logLoaded, draws, curEvent, currentItem, selectedItem, enabled,
                 bookmarkVars, findVars, pipeVars, m_Times, replayQueue, replayPc, fetched,
                 guiQueue, dispatched, stored>>

NextTimes ==
  \/ \E ds \in TimedCaptures : OnLogfileLoaded(ds)
  \/ OnLogfileClosed
  \/ on_timeDraws_clicked
  \/ \E results \in CounterResults(draws) : ReplayFetchCounters(results)
  \/ ReplayStoresTimes
  \/ GUIInvokeRuns
  \/ \E unit \in TimeUnits : UpdateDurationColumn(unit)

SpecTimes == Init /\ [][NextTimes]_vars

-----------------------------------------------------------------------------
(* Claims about the draw-timing fetch *)

\* a step that writes the duration cell or the duration tag of an item of the
\* tree that is shown
DurationWritten ==
  /\ Len(events') = Len(events)
  /\ \E n \in 1..Len(events) :
       \/ events'[n].durText # events[n].durText
       \/ events'[n].tag.duration # events[n].tag.duration

\* C10: on_timeDraws_clicked dispatches one counter fetch to the replay
\* thread; a step that writes duration cells or duration tags is a step of the
\* UI thread, and is taken only when a dispatched fetch has completed and its
\* results are stored in m_Times.
C10_DurationsAfterFetchStored ==
  [][/\ lastCall'.op = "on_timeDraws_clicked" =>
          /\ replayQueue' = replayQueue + 1
          /\ UNCHANGED <<events, m_Times, guiQueue, replayPc>>
     /\ DurationWritten =>
          /\ lastCall'.thread = "UI"
          /\ stored >= 1
          /\ stored <= dispatched
    ]_vars

\* the first fetch is still being assigned to m_Times and the duration column
\* already shows a duration
C10_WrittenBeforeStored ==
  /\ stored = 0
  /\ replayPc = "assign"
  /\ \E n \in 1..Len(events) : events[n].tag.duration > 0

\* the callback of a completed fetch has written the durations of the tree
C10_WrittenByCallback ==
  /\ lastCall.op = "SetDrawcallTimes"
  /\ lastCall.ret
  /\ stored >= 1
  /\ guiQueue = 0
  /\ \E n \in 1..Len(events) : events[n].tag.duration > 0

-----------------------------------------------------------------------------
(* The pipeline state viewer follows the context: a capture is loaded with   *)
(* the pipeline state and draw of its current event, the event changes, the  *)
(* checkboxes are toggled, the capture is closed.  An event change keeps the *)
(* pipeline state or moves to an event with the base state.                  *)

\* what setState() reads when the capture is loaded or not
Viewing(st, dr, loaded) == ViewerContext(showDisabled, showEmpty, st, dr, loaded)

\* D3D12PipelineStateViewer::OnLogfileLoaded()
Viewer_OnLogfileLoaded(st, dr) ==
  /\ ~crashed
  /\ ~logLoaded
  /\ logLoaded' = TRUE
  /\ pipeState' = st
  /\ curDraw' = dr
  /\ LET Show(set) == pipeUi' = set.ui /\ m_VBNodes' = set.m_VBNodes
     IN Show(setState(Viewing(st, dr, TRUE), pipeUi))
  /\ UNCHANGED <<draws, curEvent, events, currentItem, selectedItem, enabled,
                 bookmarkVars, findVars, timeVars, showDisabled, showEmpty, crashed, lastCall>>

\* D3D12PipelineStateViewer::OnLogfileClosed()
Viewer_OnLogfileClosed ==
  /\ ~crashed
  /\ logLoaded
  /\ logLoaded' = FALSE
  \* the context holds no pipeline state and no draw any more
  /\ pipeState' = BaseState
  /\ curDraw' = NULL
  /\ pipeUi' = clearState([pipeUi EXCEPT !.pipeFlow = AllStages])
  /\ m_VBNodes' = <<>>
  /\ UNCHANGED <<draws, curEvent, events, currentItem, selectedItem, enabled,
                 bookmarkVars, findVars, timeVars, showDisabled, showEmpty, crashed, lastCall>>

\* D3D12PipelineStateViewer::OnEventChanged(eventID), the context being at an
\* event with pipeline state st and draw dr
Viewer_OnEventChanged(st, dr) ==
  /\ ~crashed
  /\ logLoaded \/ (st = pipeState /\ dr = curDraw)
  /\ pipeState' = st
  /\ curDraw' = dr
  /\ LET Show(set) == pipeUi' = set.ui /\ m_VBNodes' = set.m_VBNodes
     IN Show(setState(Viewing(st, dr, logLoaded), pipeUi))
  /\ UNCHANGED <<treeVars, bookmarkVars, findVars, timeVars, showDisabled, showEmpty,
                 crashed, lastCall>>

\* D3D12PipelineStateViewer::on_showDisabled_toggled(checked)
on_showDisabled_toggled(checked) ==
  /\ ~crashed
  /\ checked # showDisabled
  /\ showDisabled' = checked
  /\ LET Show(set) == pipeUi' = set.ui /\ m_VBNodes' = set.m_VBNodes
     IN Show(setState(ViewerContext(checked, showEmpty, pipeState, curDraw, logLoaded),
                      pipeUi))
  /\ UNCHANGED <<treeVars, bookmarkVars, findVars, timeVars, showEmpty, pipeState, curDraw,
                 crashed, lastCall>>

\* D3D12PipelineStateViewer::on_showEmpty_toggled(checked)
on_showEmpty_toggled(checked) ==
  /\ ~crashed
  /\ checked # showEmpty
  /\ showEmpty' = checked
  /\ LET Show(set) == pipeUi' = set.ui /\ m_VBNodes' = set.m_VBNodes
     IN Show(setState(ViewerContext(showDisabled, checked, pipeState, curDraw, logLoaded),
                      pipeUi))
  /\ UNCHANGED <<treeVars, bookmarkVars, findVars, timeVars, showDisabled, pipeState,
                 curDraw, crashed, lastCall>>

NextPipeline ==
  \/ \E st \in PipeStates, dr \in CurDrawcalls : Viewer_OnLogfileLoaded(st, dr)
  \/ Viewer_OnLogfileClosed
  \/ \E st \in {pipeState, BaseState}, dr \in CurDrawcalls : Viewer_OnEventChanged(st, dr)
  \/ \E checked \in BOOLEAN : on_showDisabled_toggled(checked)
  \/ \E checked \in BOOLEAN : on_showEmpty_toggled(checked)

SpecPipeline == Init /\ [][NextPipeline]_vars



-----------------------------------------------------------------------------
(* Claims about the pipeline state viewer *)

\* the stages of the viewer and the tables of views each of them has
StageNames == {"vs", "hs", "ds", "gs", "ps", "cs"}
ViewTables == {"resources", "uavs"}

\* the rows of views the viewer shows: those of the stages and the targets
ViewRows ==
  UNION { Range(pipeUi[s][t]) : s \in StageNames, t \in ViewTables }
    \cup Range(pipeUi.targetOutputs)

\* C11: showNode(usedSlot, filledSlot) is true exactly when the slot is used,
\* or showDisabled is checked and the slot is filled, or showEmpty is checked
\* and the slot is not filled; so a blend, used if its render target has a
\* resource and filled if it is enabled or used, has its row exactly then
C11_ShowNode ==
  /\ \A usedSlot \in BOOLEAN, filledSlot \in BOOLEAN :
        showNode(Viewing(pipeState, curDraw, logLoaded), usedSlot, filledSlot)
          <=> \/ usedSlot
              \/ (showDisabled /\ filledSlot)
              \/ (showEmpty /\ ~filledSlot)
  /\ logLoaded =>
       \A i \in 1..Len(pipeState.m_OM.m_BlendState.Blends) :
          LET rts == pipeState.m_OM.RenderTargets
              usedSlot == i <= Len(rts) /\ rts[i].Resource # NoResource
              filledSlot == pipeState.m_OM.m_BlendState.Blends[i].Enabled \/ usedSlot
          IN (\E row \in Range(pipeUi.blends) : row.cells[1] = ToString(i - 1))
               <=> \/ usedSlot
                   \/ (showDisabled /\ filledSlot)
                   \/ (showEmpty /\ ~filledSlot)

\* showDisabled alone is checked and the pixel shader's views show it: a
\* bound view the shader does not use is listed in italics, an empty register
\* the shader does not use is left out, one it uses is listed
C11_Witness ==
  /\ logLoaded /\ showDisabled /\ ~showEmpty
  /\ \E row \in Range(pipeUi.ps.resources) : row.italic /\ row.background = ""
  /\ \E row \in Range(pipeUi.ps.resources) : ~row.italic /\ row.background # ""
  /\ Len(pipeUi.ps.resources) < MaxSpaces * MaxRegs

\* C12: every render target and depth target with a resource has its row in
\* the output targets table, whatever showDisabled is, and the row is not in
\* italics
C12_TargetsImplicitlyUsed ==
  logLoaded =>
    /\ \A i \in 1..Len(pipeState.m_OM.RenderTargets) :
          pipeState.m_OM.RenderTargets[i].Resource # NoResource =>
            \E row \in Range(pipeUi.targetOutputs) :
               row.tag.type = OMTarget /\ row.tag.reg = i - 1 /\ ~row.italic
    /\ pipeState.m_OM.DepthTarget.Resource # NoResource =>
         \E row \in Range(pipeUi.targetOutputs) : row.tag.type = OMDepth /\ ~row.italic

\* the tables and the fixed-function fields clearState() resets
ClearedFields ==
  {"iaLayouts", "iaBuffers", "topology", "topologyDiagram", "vs", "hs", "ds", "gs", "ps",
   "cs", "fillMode", "cullMode", "frontCCW", "conservativeRaster", "depthBias",
   "depthBiasClamp", "slopeScaledBias", "forcedSampleCount", "depthClip", "multisample",
   "lineAA", "sampleMask", "independentBlend", "alphaToCoverage", "blendFactor",
   "viewports", "scissors", "targetOutputs", "blends", "depthEnabled", "depthFunc",
   "depthWrite", "stencilEnabled", "stencilReadMask", "stencilWriteMask", "stencilRef",
   "stencils"}

\* C13: a refresh without a capture leaves every table empty, m_VBNodes empty
\* and every fixed-function field at its default, as after construction; a
\* refresh with a capture that repeats the pipeline state, the draw and the
\* checkboxes of the last one changes no row
C13_RefreshClearsFirst ==
  [][/\ ~logLoaded' =>
          /\ m_VBNodes' = <<>>
          /\ pipeUi'.gsStreamOut = <<>>
          /\ \A f \in ClearedFields : pipeUi'[f] = clearState(SetupUi)[f]
     /\ (/\ logLoaded /\ logLoaded'
         /\ pipeState' = pipeState /\ curDraw' = curDraw
         /\ showDisabled' = showDisabled /\ showEmpty' = showEmpty)
          => pipeUi' = pipeUi /\ m_VBNodes' = m_VBNodes]_vars

\* the notes about a read-only depth or stencil component
DepthNotes == {"Depth component is read-only", "Stencil component is read-only"}

\* C15: the row of the depth target is labelled 'Depth' and, the target
\* being a texture, carries the note of each component that is read-only; no
\* row of a shader resource, UAV or render target is labelled 'Depth' or
\* carries such a note
C15_DepthRowOnly ==
  logLoaded =>
    \A row \in ViewRows :
       IF row.tag.type = OMDepth
       THEN /\ row.cells[3] = "Depth"
            /\ GetTexture(row.tag.res.Resource) # NULL =>
                 /\ pipeState.m_OM.DepthReadOnly =>
                      "Depth component is read-only" \in Range(row.toolTip)
                 /\ pipeState.m_OM.StencilReadOnly =>
                      "Stencil component is read-only" \in Range(row.toolTip)
       ELSE /\ row.cells[3] # "Depth"
            /\ Range(row.toolTip) \cap DepthNotes = {}

\* the bindpoints of binds, in mapping order, that cover register reg of
\* space and whose resource is of one of the kinds
Covering(binds, res, kinds, space, reg) ==
  { i \in 1..Len(binds) :
      /\ binds[i].bindset = space
      /\ binds[i].bind <= reg
      /\ (binds[i].arraySize = UINT_MAX \/ reg < binds[i].bind + binds[i].arraySize)
      /\ res[i].IsSampler \in kinds }

\* the rows of table that show register reg of space: the register cell is
\* the number, followed by the name of the shader's resource if it has one
RowsAt(table, space, reg) ==
  { row \in Range(table) :
      /\ row.cells[2] = ToString(space)
      /\ \/ row.cells[3] = ToString(reg)
         \/ \E n \in {"first", "second"} : row.cells[3] = ToString(reg) \o ": " \o n }

\* the row shows the first of the covering bindpoints: its name, and italics
\* unless the bindpoint is used; with no bindpoint covering it, it is in
\* italics and has no name
ShowsFirst(row, binds, res, kinds, space, reg) ==
  LET covering == Covering(binds, res, kinds, space, reg)
      first == CHOOSE i \in covering : \A k \in covering : i <= k
  IN IF covering = {} THEN row.italic /\ row.cells[3] = ToString(reg)
     ELSE /\ row.italic = ~binds[first].used
          /\ row.cells[3] = ToString(reg) \o ": " \o res[first].name

\* C16: a view, sampler or constant buffer at (space, reg) is shown with the
\* first bindpoint in mapping order of that space whose range covers reg,
\* views with resources that are no samplers and samplers with those that
\* are; without such a bindpoint it is not used
C16_FirstCoveringBindpoint ==
  logLoaded /\ pipeState.m_PS.ShaderDetails # NULL =>
    LET stage == pipeState.m_PS
        map == stage.BindpointMapping
        refl == stage.ShaderDetails
    IN \A space \in 0..(Len(stage.Spaces) - 1), reg \in 0..(MaxRegs - 1) :
          /\ \A row \in RowsAt(pipeUi.ps.resources, space, reg) :
                ShowsFirst(row, map.ReadOnlyResources, refl.ReadOnlyResources, {FALSE},
                           space, reg)
          /\ \A row \in RowsAt(pipeUi.ps.uavs, space, reg) :
                ShowsFirst(row, map.ReadWriteResources, refl.ReadWriteResources, {FALSE},
                           space, reg)
          /\ \A row \in RowsAt(pipeUi.ps.samplers, space, reg) :
                ShowsFirst(row, map.ReadOnlyResources, refl.ReadOnlyResources, {TRUE},
                           space, reg)
          /\ \A row \in RowsAt(pipeUi.ps.cbuffers, space, reg) :
                ShowsFirst(row, map.ConstantBlocks,
                           [i \in 1..Len(refl.ConstantBlocks) |->
                              [name |-> refl.ConstantBlocks[i].name, IsSampler |-> FALSE]],
                           {FALSE}, space, reg)

\* two bindpoints cover register 1 of space 0, the first through an array of
\* two registers and unused, the second used: the view is shown in italics
\* under the name of the first
C16_Witness ==
  /\ logLoaded /\ showDisabled
  /\ pipeState.m_PS.ShaderDetails # NULL
  /\ LET binds == pipeState.m_PS.BindpointMapping.ReadOnlyResources
         res == pipeState.m_PS.ShaderDetails.ReadOnlyResources
     IN /\ Len(binds) = 2
        /\ binds[1] = [bindset |-> 0, bind |-> 0, arraySize |-> 2, used |-> FALSE]
        /\ binds[2].bindset = 0 /\ binds[2].used
        /\ ~res[1].IsSampler /\ ~res[2].IsSampler
  /\ \E row \in RowsAt(pipeUi.ps.resources, 0, 1) : row.italic /\ row.cells[3] = "1: first"

\* no bindpoint of the pixel shader covers register 0 of register space 2,
\* the number that is also ViewTag::OMTarget; its view has a resource, and the
\* row is there with showDisabled unchecked, in upright type
C16_WitnessSpaceOfTarget ==
  /\ logLoaded /\ ~showDisabled /\ ~showEmpty
  /\ pipeState.m_PS.ShaderDetails # NULL
  /\ Len(pipeState.m_PS.Spaces) > OMTarget
  /\ Covering(pipeState.m_PS.BindpointMapping.ReadWriteResources,
              pipeState.m_PS.ShaderDetails.ReadWriteResources, {FALSE}, OMTarget, 0) = {}
  /\ \E row \in RowsAt(pipeUi.ps.uavs, OMTarget, 0) : ~row.italic

\* C17: the flowchart enables all nine stages when the event is no draw, the
\* compute stage alone at a dispatch, and otherwise IA, VS, RS and OM, each of
\* HS, DS, GS and PS exactly when its shader is bound, and not CS; after
\* OnLogfileClosed all nine stages are enabled
C17_PipeFlow ==
  pipeUi.pipeFlow =
    IF ~logLoaded \/ curDraw = NULL THEN [i \in 1..9 |-> TRUE]
    ELSE IF "Dispatch" \in curDraw.flags THEN [i \in 1..9 |-> i = 9]
    ELSE [i \in 1..9 |->
            CASE i = 3 -> pipeState.m_HS.Object # NoResource
              [] i = 4 -> pipeState.m_DS.Object # NoResource
              [] i = 5 -> pipeState.m_GS.Object # NoResource
              [] i = 7 -> pipeState.m_PS.Object # NoResource
              [] i = 9 -> FALSE
              [] OTHER -> TRUE]

\* a draw with a geometry shader and no hull, domain or pixel shader, while a
\* compute shader is bound as well
C17_Witness ==
  /\ logLoaded /\ curDraw # NULL /\ "Dispatch" \notin curDraw.flags
  /\ pipeState.m_GS.Object # NoResource /\ pipeState.m_CS.Object # NoResource
  /\ pipeState.m_HS.Object = NoResource /\ pipeState.m_PS.Object = NoResource
  /\ pipeUi.pipeFlow = <<TRUE, TRUE, FALSE, FALSE, TRUE, TRUE, FALSE, TRUE, FALSE>>

\* a dispatch: the compute stage alone is enabled
C17_WitnessDispatch ==
  /\ logLoaded /\ curDraw # NULL /\ "Dispatch" \in curDraw.flags
  /\ pipeUi.pipeFlow = <<FALSE, FALSE, FALSE, FALSE, FALSE, FALSE, FALSE, FALSE, TRUE>>

-----------------------------------------------------------------------------
(* Claim about the durations SetDrawcallTimes writes *)

\* the sum of the positive duration tags of the items of list
RECURSIVE SumPositive(_, _, _)
SumPositive(nodes, list, i) ==
  IF i > Len(list) THEN 0
  ELSE (IF nodes[list[i]].tag.duration > 0 THEN nodes[list[i]].tag.duration ELSE 0)
         + SumPositive(nodes, list, i + 1)

\* C14: after SetDrawcallTimes(root, results) the duration tag of every node
\* with children is the sum of the positive durations of its direct
\* children; a childless node has the duration of a result, or -1 and an
\* empty duration cell
C14_ParentsSumChildren ==
  (lastCall.op \in {"SetDrawcallTimes", "UpdateDurationColumn"} /\ lastCall.ret) =>
    \A n \in 1..Len(events) :
       IF childCount(events, n) > 0
       THEN events[n].tag.duration = SumPositive(events, events[n].children, 1)
       ELSE \/ events[n].tag.duration = -1 /\ events[n].durText = ""
            \/ events[n].tag.duration \in Durations /\ events[n].durText # ""

\* SetDrawcallTimes has run over a tree in which a marker region holds a
\* draw call with a duration
C14_Witness ==
  /\ lastCall.op = "SetDrawcallTimes" /\ lastCall.ret
  /\ \E n \in 2..Len(events) :
        /\ childCount(events, n) > 0
        /\ \E k \in 1..childCount(events, n) :
              events[events[n].children[k]].tag.duration > 0

-----------------------------------------------------------------------------
(* Claims about the find highlight and the order of Find *)

\* C18: an edit of the find text to a non-empty text leaves the timer
\* running and an edit to the empty text stops it and clears every find flag
\* at once, so the timer runs for the most recent text only; when
\* findHighlight_timeout has run with a capture loaded, the items below the
\* frame root that have the find flag are those whose name contains the text,
\* and the find box is red exactly when there is none
C18_HighlightAfterLastEdit ==
  /\ findTimer => findText # <<>>
  /\ lastCall.op = "on_findEvent_textEdited" =>
       IF findText = <<>>
       THEN ~findTimer /\ \A n \in 1..Len(events) : ~events[n].tag.find
       ELSE findTimer
  /\ (lastCall.op = "findHighlight_timeout" /\ logLoaded) =>
       /\ ~findTimer
       /\ \A n \in Below(events) : events[n].tag.find <=> n \in FindMatches
       /\ findStyle = "red" <=> FindMatches = {}

\* the timer ran out after the text was edited from one that every name
\* contains to one that a single name contains: the flags of the first text
\* are gone
C18_Witness ==
  /\ lastCall.op = "findHighlight_timeout" /\ logLoaded
  /\ findText = <<"P", "A">>
  /\ \E n \in Below(events) : events[n].tag.find
  /\ \E n \in Below(events) : ~events[n].tag.find /\ Contains(events[n].name, <<"a">>)

\* the text was edited to the empty text while items had the find flag
C18_WitnessEmpty ==
  /\ lastCall.op = "on_findEvent_textEdited" /\ logLoaded
  /\ findText = <<>> /\ ~findTimer
  /\ Len(events) > 2

\* the captures of the specification that follows the order of Find: draw
\* calls and marker regions, up to a region that holds two draw calls
OrderCaptures ==
  DrawLists(MaxDraws, MaxDepth, { k \in DrawKinds : "SetMarker" \notin k.flags }, {1})

\* the texts of that specification: one that the names of regions and draw
\* calls contain, one that only those of regions contain
OrderTexts == { <<"a">>, <<"P","A">> }

NextFindOrder ==
  \/ \E ds \in OrderCaptures : OnLogfileLoaded(ds)
  \/ OnLogfileClosed
  \/ on_find_clicked
  \/ \E text \in OrderTexts : on_findEvent_textEdited(text)
  \/ findHighlight_timeoutFires
  \/ on_findNext_clicked
  \/ on_findPrev_clicked

SpecFindOrder == Init /\ [][NextFindOrder]_vars

\* the handlers that run Find(forward)
FindCalls == {"Find", "on_findEvent_returnPressed", "on_findEvent_keyPress"}

\* the lastEID Find starts from: that of the selected item, else the
\* context's event
FindStart == IF selectedItem # 0 THEN events[selectedItem].tag.lastEID ELSE curEvent

\* the lastEIDs of the matching items beyond the start of the search
MatchesBeyond(forward) ==
  { events[n].tag.lastEID : n \in { k \in FindMatches :
      IF forward THEN events[k].tag.lastEID > FindStart
      ELSE events[k].tag.lastEID < FindStart } }

\* Find(forward) leaves selected an item that ends at the nearest of the
\* matches beyond the start, if there is one
FindTakesNearest(forward) ==
  (/\ lastCall'.op \in FindCalls /\ lastCall'.arg = (IF forward THEN 1 ELSE 0)
   /\ logLoaded /\ findText # <<>> /\ MatchesBeyond(forward) # {})
    => /\ selectedItem' # 0
       /\ \A eid \in MatchesBeyond(forward) :
             IF forward THEN events'[selectedItem'].tag.lastEID <= eid
             ELSE events'[selectedItem'].tag.lastEID >= eid
       /\ events'[selectedItem'].tag.lastEID \in MatchesBeyond(forward)

\* C19: Find(true) selects, of the matching items whose lastEID is above that
\* of the selected item, the one with the smallest lastEID, so that repeated
\* searches visit the matches in increasing order; Find(false) selects the
\* one with the largest lastEID below
C19_FindVisitsInOrder == [][FindTakesNearest(TRUE) /\ FindTakesNearest(FALSE)]_vars

\* the backward half of C19 alone
C19_FindPrevInOrder == [][FindTakesNearest(FALSE)]_vars

\* Find(true) has passed over a matching draw call: it selected the end of a
\* matching marker region although a matching item between the start of the
\* search and that end is left behind
C19_WitnessSkipped ==
  /\ lastCall.op = "Find" /\ lastCall.arg = 1 /\ lastCall.ret
  /\ logLoaded /\ selectedItem # 0
  /\ \E n \in FindMatches :
        /\ childCount(events, n) > 0
        /\ events[n].tag.lastEID = events[selectedItem].tag.lastEID
        /\ \E k \in FindMatches :
              /\ events[k].parent = n
              /\ events[k].tag.lastEID < events[selectedItem].tag.lastEID

-----------------------------------------------------------------------------
(* Claim about the threads that touch m_Times *)

\* the step is a handler on the UI thread that reads m_Times: the queued
\* callback of a fetch, or UpdateDurationColumn past its test of the unit
ReadsTimesOnUI ==
  /\ lastCall'.thread = "UI"
  /\ \/ lastCall'.op = "SetDrawcallTimes"
     \/ lastCall'.op = "UpdateDurationColumn" /\ m_TimeUnit' # m_TimeUnit

\* C20: no handler on the UI thread reads m_Times while the replay thread is
\* assigning it, whatever the order of clicks on 'time draws', fetches,
\* callbacks and changes of the time unit
C20_NoReadDuringAssign == [][ReadsTimesOnUI => replayPc # "assign"]_vars

\* the callback of the first fetch runs while the second fetch is being
\* assigned to m_Times
C20_WitnessOverlap ==
  /\ lastCall.op = "SetDrawcallTimes" /\ lastCall.thread = "UI"
  /\ replayPc = "assign" /\ stored = 1 /\ dispatched = 2

=============================================================================
